---- MODULE Spec2Model ----
(***************************************************************************)
(* A model of the PortSimulation repository: the discrete-event terminal   *)
(* simulation (src/src/sim/model.py) with the metrics derivation           *)
(* (src/src/sim/metrics.py), the config override boundary                  *)
(* (src/src/sim/overrides.py) and the TAS booking resolution               *)
(* (src/truck_tas.py).                                                     *)
(*                                                                         *)
(* Simulated time is an integer number of minutes.  Every sample the code  *)
(* draws from the random generator is a choice from a small set.           *)
(***************************************************************************)
EXTENDS Integers, Sequences, FiniteSets, TLC

VARIABLES
    phase,      \* "idle" | "running" | "done" | "error": where run_simulation is
    cfg,        \* the ScenarioConfig of the run
    now,        \* env.now
    queue,      \* the environment's event queue, in processing order
    res,        \* unit resources: name -> [users, queue]
    yard,       \* the yard container: [level, putq, getq]
    store,      \* ready_store: [items, getq]
    pc,         \* process -> the yield it is suspended at
    loc,        \* process -> its local variables
    ts,         \* container -> its timestamp dict t
    tm,         \* truck -> its timestamp dict tm
    metrics,    \* the metrics list of run_simulation
    df,         \* the table returned by metrics_to_dataframe
    stats,      \* counters of what the run has done so far
    ov,         \* the apply_overrides call: heap, result
    tas,        \* the build_tas_arrival_schedule call
    ag,         \* the run_agentic_demo call: position, calls made, files written
    rt,         \* the scenario_to_dict / scenario_from_dict calls
    ves         \* the vessel layer: piers, crane pool, vessel calls

vars == <<phase, cfg, now, queue, res, yard, store, pc, loc, ts, tm, metrics, df, stats, ov, tas, ag, rt, ves>>
simVars == <<phase, cfg, now, queue, res, yard, store, pc, loc, ts, tm, metrics, df, stats>>

\* A timestamp or column that is absent (a missing dict key, a NaN cell).
None == 0 - 999999

Max(a, b) == IF a >= b THEN a ELSE b
Min(a, b) == IF a <= b THEN a ELSE b

-----------------------------------------------------------------------------
(* Bounds of the model. *)

\* Entities each arrival generator may create.
MaxShips == 2
MaxExports == 1
MaxTrucks == 2

Ships == 0 .. (MaxShips - 1)
Exports == 0 .. (MaxExports - 1)
Trucks == 0 .. (MaxTrucks - 1)

\* Process identifiers: <<kind, index>>.
GenShip == <<"gen", 0>>
GenExport == <<"gen", 1>>
GenTruck == <<"gen", 2>>
Generators == {GenShip, GenExport, GenTruck}
ShipProcs == {<<"S", i>> : i \in Ships}
ExportProcs == {<<"E", i>> : i \in Exports}
Containers == ShipProcs \cup ExportProcs
TruckProcs == {<<"T", i>> : i \in Trucks}
SelectProcs == {<<"sel", i>> : i \in Trucks}
Procs == Generators \cup Containers \cup TruckProcs \cup SelectProcs
NoProc == <<"none", 0>>

\* A ready item: the container and its TEU size.
Item(c, teu) == [c |-> c, teu |-> teu]
NoItem == Item(NoProc, 0)

UnitResources == {"cranes", "yard_equipment", "scanners", "loaders", "gate_in", "gate_out"}

-----------------------------------------------------------------------------
(* ScenarioConfig.  Probabilities, the occupancy threshold and             *)
(* rehandle_alpha are held in hundredths.                                  *)

Band(start, end, prob) == [start |-> start, end |-> end, prob |-> prob]

DemoBase ==
    [ sim_time_mins |-> 3, max_dwell_mins |-> 4, post_process_buffer_mins |-> 3,
      p_import |-> 60, p_export |-> 20, p_transship |-> 20, pct_40ft |-> 30,
      num_cranes |-> 1, yard_capacity |-> 4, yard_equipment_capacity |-> 1,
      num_scanners |-> 1, num_loaders |-> 1, num_gate_in |-> 1, num_gate_out |-> 1,
      crane_moves_per_hour |-> 60, scan_time_mins |-> 1,
      yard_move_min |-> 1, yard_move_mode |-> 1, yard_move_max |-> 1,
      yard_occ_threshold |-> 50, rehandle_alpha |-> 200,
      loading_time_min |-> 1, loading_time_mode |-> 1, loading_time_max |-> 1,
      gate_in_time_min |-> 1, gate_in_time_mode |-> 1, gate_in_time_max |-> 1,
      gate_out_time_min |-> 1, gate_out_time_mode |-> 1, gate_out_time_max |-> 1,
      offset_after_discharge_mins |-> 1,
      import_dwell_bands |-> << Band(0, 0, 100) >>,
      transship_dwell_bands |-> << Band(0, 0, 100) >>,
      export_dwell_min |-> 1, export_dwell_max |-> 1,
      hourly_truck_teu_rate |-> [h \in 1 .. 24 |-> 120],
      truck_capacity_teu |-> 2 ]

\* ScenarioConfig.crane_time_mins
crane_time_mins(c) ==
    IF c.crane_moves_per_hour <= 0 THEN 60000000 ELSE 60 \div c.crane_moves_per_hour

-----------------------------------------------------------------------------
(* The event queue and the shared resources.  K is the record              *)
(* [queue, res, yard, store]; each operator returns K after one call.      *)

Ev(t, prio, kind, p, r, item) ==
    [t |-> t, prio |-> prio, kind |-> kind, p |-> p, r |-> r, item |-> item]

\* An event already queued stays ahead of a new one of the same time and priority.
StaysAhead(a, e) == a.t < e.t \/ (a.t = e.t /\ a.prio <= e.prio)

Schedule(q, e) ==
    LET n == Cardinality({i \in 1 .. Len(q) : StaysAhead(q[i], e)})
    IN  SubSeq(q, 1, n) \o <<e>> \o SubSeq(q, n + 1, Len(q))

RemoveAt(s, i) == SubSeq(s, 1, i - 1) \o SubSeq(s, i + 1, Len(s))

\* env.timeout(d), yielded by process p at time t.
Timeout(K, p, t, d) == [K EXCEPT !.queue = Schedule(@, Ev(t + d, 1, "timeout", p, "", NoItem))]

\* env.process(...): the new process's Initialize event, urgent, at time t.
StartProcess(K, p, t) == [K EXCEPT !.queue = Schedule(@, Ev(t, 0, "init", p, "", NoItem))]

\* A unit resource has a free slot.
\* A resource that grants a request whatever its users.
HasFreeSlotAlways(R) == TRUE

HasFreeSlot(R) == Cardinality(R.users) < R.capacity

\* The head request of a unit resource is granted when a slot is free.
TriggerPutRes(K, r, t) ==
    LET R == K.res[r]
    IN  IF R.queue # <<>> /\ HasFreeSlot(R)
        THEN [K EXCEPT !.res[r] = [R EXCEPT !.users = @ \cup {Head(R.queue)},
                                            !.queue = Tail(@)],
                       !.queue = Schedule(@, Ev(t, 1, "req", Head(R.queue), r, NoItem))]
        ELSE K

\* resource.request() by process p.
Request(K, r, p, t) == TriggerPutRes([K EXCEPT !.res[r].queue = Append(@, p)], r, t)

\* A release that schedules its event and leaves the process among the users.
ReleaseKeepsSlot(K, r, p, t) ==
    [K EXCEPT !.queue = Schedule(@, Ev(t, 1, "release", NoProc, r, NoItem))]

\* The end of "with resource.request() as req": the slot is given back at
\* once, the waiting requests are looked at when the release event is processed.
Release(K, r, p, t) ==
    [K EXCEPT !.res[r].users = @ \ {p},
              !.queue = Schedule(@, Ev(t, 1, "release", NoProc, r, NoItem))]

\* The yard has room for n more TEU.
YardPutFits(Y, n) == Y.capacity - Y.level >= n

\* The yard holds at least n TEU.
YardGetFits(Y, n) == Y.level >= n

RECURSIVE TriggerPutYard(_, _)
TriggerPutYard(K, t) ==
    IF K.yard.putq = <<>> THEN K
    ELSE LET h == Head(K.yard.putq)
         IN  IF YardPutFits(K.yard, h.n)
             THEN TriggerPutYard(
                      [K EXCEPT !.yard.level = @ + h.n, !.yard.putq = Tail(@),
                                !.queue = Schedule(@, Ev(t, 1, "yput", h.p, "yard", NoItem))], t)
             ELSE K

RECURSIVE TriggerGetYard(_, _)
TriggerGetYard(K, t) ==
    IF K.yard.getq = <<>> THEN K
    ELSE LET h == Head(K.yard.getq)
         IN  IF YardGetFits(K.yard, h.n)
             THEN TriggerGetYard(
                      [K EXCEPT !.yard.level = @ - h.n, !.yard.getq = Tail(@),
                                !.queue = Schedule(@, Ev(t, 1, "yget", h.p, "yard", NoItem))], t)
             ELSE K

\* A yard.get that succeeds at once and leaves the level as it is.
YardGetKeepsLevel(K, p, n, t) ==
    [K EXCEPT !.queue = Schedule(@, Ev(t, 1, "yget", p, "yard", NoItem))]

\* A yard.put that succeeds at once and leaves the level as it is.
YardPutKeepsLevel(K, p, n, t) ==
    [K EXCEPT !.queue = Schedule(@, Ev(t, 1, "yput", p, "yard", NoItem))]

\* yard.put(n) and yard.get(n) by process p.
YardPut(K, p, n, t) == TriggerPutYard([K EXCEPT !.yard.putq = Append(@, [p |-> p, n |-> n])], t)
YardGet(K, p, n, t) == TriggerGetYard([K EXCEPT !.yard.getq = Append(@, [p |-> p, n |-> n])], t)

\* A ready_store.get filter: "any" (no filter), "teu1", "teu2".
Matches(filter, item) ==
    \/ filter = "any"
    \/ filter = "teu1" /\ item.teu = 1
    \/ filter = "teu2" /\ item.teu = 2

\* The index of the first item the filter accepts, 0 when there is none.
FirstMatch(items, filter) ==
    LET ok == {i \in 1 .. Len(items) : Matches(filter, items[i])}
    IN  IF ok = {} THEN 0 ELSE CHOOSE i \in ok : \A j \in ok : i <= j

\* A store whose get hands an item out and leaves it in the items list.
RECURSIVE StoreGetLoopKeepsItem(_, _, _)
StoreGetLoopKeepsItem(K, idx, t) ==
    IF idx > Len(K.store.getq) THEN K
    ELSE LET g == K.store.getq[idx]
             m == FirstMatch(K.store.items, g.filter)
         IN  IF m = 0 THEN StoreGetLoopKeepsItem(K, idx + 1, t)
             ELSE StoreGetLoopKeepsItem(
                      [K EXCEPT !.store.getq = RemoveAt(@, idx),
                                !.queue = Schedule(@, Ev(t, 1, "sget", g.p, "ready_store",
                                                         K.store.items[m]))], idx, t)

\* FilterStore: every waiting get, in order, takes the first item it accepts.
RECURSIVE StoreGetLoop(_, _, _)
StoreGetLoop(K, idx, t) ==
    IF idx > Len(K.store.getq) THEN K
    ELSE LET g == K.store.getq[idx]
             m == FirstMatch(K.store.items, g.filter)
         IN  IF m = 0 THEN StoreGetLoop(K, idx + 1, t)
             ELSE StoreGetLoop(
                      [K EXCEPT !.store.items = RemoveAt(@, m),
                                !.store.getq = RemoveAt(@, idx),
                                !.queue = Schedule(@, Ev(t, 1, "sget", g.p, "ready_store",
                                                         K.store.items[m]))], idx, t)

\* ready_store.get(filter) by process p.
StoreGet(K, p, filter, t) ==
    StoreGetLoop([K EXCEPT !.store.getq = Append(@, [p |-> p, filter |-> filter])], 1, t)

\* A put that places the item in the store twice.
StorePutTwice(K, p, item, t) ==
    [K EXCEPT !.store.items = Append(Append(@, item), item),
              !.queue = Schedule(@, Ev(t, 1, "sput", p, "ready_store", NoItem))]

\* ready_store.put(item) by process p: the store has no capacity limit.
StorePut(K, p, item, t) ==
    [K EXCEPT !.store.items = Append(@, item),
              !.queue = Schedule(@, Ev(t, 1, "sput", p, "ready_store", NoItem))]

-----------------------------------------------------------------------------
(* The distribution sampler: each operator is the set of values the        *)
(* sample can take.                                                        *)

\* Longest interarrival time drawn by random.expovariate.
MaxInterarrival == 2

\* random.triangular(low, high, mode), whole-minute outcomes.  The samplers
\* pass (min, mode, max) in this order, so the configured mode is the upper
\* end of the base interval and the configured max is the peak: equal ends
\* give low, a peak at or past high gives low + (high - low) * sqrt(u * c)
\* with u < 1 and c = (mode - low) / (high - low).
Triangular(low, high, mode) ==
    IF high = low THEN {low}
    ELSE IF mode <= high THEN Min(low, high) .. Max(low, high)
    ELSE {low} \cup {v \in low .. mode : (v - low) * (v - low) < (high - low) * (mode - low)}

\* random.expovariate(rate), for the three arrival generators.
ShipInterarrivals == 1 .. MaxInterarrival
ExportInterarrivals == {MaxInterarrival}
TruckInterarrivals == 1 .. MaxInterarrival

RECURSIVE Cumulative(_, _)
Cumulative(bands, i) == IF i = 0 THEN 0 ELSE Cumulative(bands, i - 1) + bands[i].prob

\* _sample_banded_dwell: band i is taken when r lands in it, the last band
\* when r is above the total.
_sample_banded_dwell(bands) ==
    LET n == Len(bands)
        reach == {i \in 1 .. n :
                     \/ i = 1
                     \/ Cumulative(bands, i - 1) < Cumulative(bands, i)
                        /\ Cumulative(bands, i - 1) < 100}
                 \cup (IF Cumulative(bands, n) < 100 THEN {n} ELSE {})
    IN  UNION {bands[i].start .. bands[i].end : i \in reach}

sample_import_dwell_minutes(c) ==
    {c.offset_after_discharge_mins + d : d \in _sample_banded_dwell(c.import_dwell_bands)}

sample_transship_dwell_minutes(c) == _sample_banded_dwell(c.transship_dwell_bands)

sample_export_dwell_minutes(c) == c.export_dwell_min .. c.export_dwell_max

sample_teu_size(c) ==
    (IF c.pct_40ft > 0 THEN {2} ELSE {}) \cup (IF c.pct_40ft < 100 THEN {1} ELSE {})

\* A yard-move time penalised as if the yard were full, whatever its level.
YardMoveTimeFullYard(c, base, level) ==
    IF c.yard_capacity <= 0 THEN Max(0, base)
    ELSE Max(0, (base * (100 * (100 - c.yard_occ_threshold)
                            + c.rehandle_alpha * (100 - c.yard_occ_threshold)))
                \div (100 * (100 - c.yard_occ_threshold)))

\* The yard-move time for a sampled base time at a yard level.  The division
\* is exact for the configs of this model.
YardMoveTime(c, base, level) ==
    IF c.yard_capacity <= 0 THEN Max(0, base)
    ELSE LET occ == Max(0, Min(c.yard_capacity, level))  \* occupancy * yard_capacity
             den == 100 * c.yard_capacity * (100 - c.yard_occ_threshold)
         IN  IF 100 * occ <= c.yard_occ_threshold * c.yard_capacity THEN Max(0, base)
             ELSE Max(0, (base * (den + c.rehandle_alpha
                                        * (100 * occ - c.yard_occ_threshold * c.yard_capacity)))
                         \div den)

sample_yard_move_time(c, level) ==
    {YardMoveTime(c, base, level) :
        base \in Triangular(c.yard_move_min, c.yard_move_mode, c.yard_move_max)}

sample_loading_time(c) == Triangular(c.loading_time_min, c.loading_time_mode, c.loading_time_max)

sample_gate_in_time(c) == Triangular(c.gate_in_time_min, c.gate_in_time_mode, c.gate_in_time_max)

sample_gate_out_time(c) ==
    Triangular(c.gate_out_time_min, c.gate_out_time_mode, c.gate_out_time_max)

sample_ship_flow_type(c) ==
    IF c.p_import + c.p_transship <= 0 THEN {"IMPORT"}
    ELSE (IF c.p_import > 0 THEN {"IMPORT"} ELSE {})
         \cup (IF c.p_transship > 0 THEN {"TRANSSHIP"} ELSE {})

-----------------------------------------------------------------------------
(* The state of one run_simulation call. *)

\* The keys a container's timestamp dict can hold.
TsFields ==
    { "arrival_time", "crane_start", "crane_end", "yard_entry_time",
      "pickup_request_time", "scanner_queue_len_at_pickup", "loader_queue_len_at_pickup",
      "yard_exit_time", "yard_to_scan_queue_enter", "yard_to_scan_start",
      "occupancy_at_yard_to_scan", "yard_to_scan_end", "scan_queue_enter", "scan_start",
      "scan_end", "ready_time", "yard_to_truck_queue_enter", "yard_to_truck_start",
      "occupancy_at_yard_to_truck", "yard_to_truck_end", "loading_queue_enter",
      "loading_start", "loading_end", "exit_time", "gate_in_queue_enter", "gate_in_start",
      "gate_in_end", "pickup_time", "gate_queue_enter", "gate_start", "gate_out_exit_time" }

\* The keys a truck's dict tm can hold.
TmFields ==
    { "gate_in_queue_enter", "gate_in_start", "gate_in_end", "pickup_start", "pickup_end",
      "picked_teu", "picked_containers", "yard_to_truck_queue_enter", "yard_to_truck_start",
      "occupancy_at_yard_to_truck", "yard_to_truck_end", "loading_queue_enter",
      "loading_start", "loading_end", "gate_out_queue_enter", "gate_out_start",
      "gate_out_end" }

EmptyTs == [f \in TsFields |-> None]
EmptyTm == [f \in TmFields |-> None]

\* dict update: the keys of the record new are set in d.
Stamp(d, new) == [f \in DOMAIN d |-> IF f \in DOMAIN new THEN new[f] ELSE d[f]]

\* The locals of a process: TEU size, flow type, a counter, claimed items.
NoLoc == [teu |-> 0, flow |-> "", n |-> 0, items |-> <<>>]

NoStats == [draws |-> 0, timeouts |-> 0, entities |-> 0]

\* run_until of run_simulation.
RunUntil(c) == c.sim_time_mins + c.max_dwell_mins + c.post_process_buffer_mins

\* The occupancy snapshot yard.level / yard_capacity, kept as its numerator.
Occupancy(c, level) == IF c.yard_capacity > 0 THEN level ELSE 0

\* pd.DataFrame() with no rows and no columns.
EmptyFrame == [columns |-> {}, rows |-> <<>>]

SimIdle ==
    /\ phase = "idle"
    /\ now = 0
    /\ queue = <<>>
    /\ res = [r \in UnitResources |-> [capacity |-> 0, users |-> {}, queue |-> <<>>]]
    /\ yard = [capacity |-> 0, level |-> 0, putq |-> <<>>, getq |-> <<>>]
    /\ store = [items |-> <<>>, getq |-> <<>>]
    /\ pc = [p \in Procs |-> "none"]
    /\ loc = [p \in Procs |-> NoLoc]
    /\ ts = [c \in Containers |-> EmptyTs]
    /\ tm = [k \in TruckProcs |-> EmptyTm]
    /\ metrics = <<>>
    /\ df = EmptyFrame
    /\ stats = NoStats

\* The event being processed, and the shared state once it is popped.
E == Head(queue)
K0 == [queue |-> Tail(queue), res |-> res, yard |-> yard, store |-> store]
SetK(K) == queue' = K.queue /\ res' = K.res /\ yard' = K.yard /\ store' = K.store

\* A run that stops at the arrival horizon instead of run_until.
RunningToHorizon == phase = "running" /\ queue # <<>> /\ E.t < cfg.sim_time_mins

\* env.run(until=run_until) processes the events scheduled before run_until.
Running == phase = "running" /\ queue # <<>> /\ E.t < RunUntil(cfg)

\* The next event resumes process p, suspended at label, with an event of this kind.
At(p, kind, label) == Running /\ E.p = p /\ E.kind = kind /\ pc[p] = label

Count(what, k) == stats' = [stats EXCEPT ![what] = @ + k]

\* The capacities simpy's Resource and Container constructors accept.
CapacitiesValid(c) ==
    /\ c.num_cranes > 0 /\ c.yard_capacity > 0 /\ c.yard_equipment_capacity > 0
    /\ c.num_scanners > 0 /\ c.num_loaders > 0 /\ c.num_gate_in > 0 /\ c.num_gate_out > 0

CapacityOf(c, r) ==
    CASE r = "cranes" -> c.num_cranes
      [] r = "yard_equipment" -> c.yard_equipment_capacity
      [] r = "scanners" -> c.num_scanners
      [] r = "loaders" -> c.num_loaders
      [] r = "gate_in" -> c.num_gate_in
      [] r = "gate_out" -> c.num_gate_out

\* run_simulation up to env.run: the resources are built and the three
\* generator processes are registered, in this order.
run_simulation_setup ==
    /\ phase = "idle"
    /\ IF CapacitiesValid(cfg)
       THEN /\ phase' = "running"
            /\ res' = [r \in UnitResources |->
                          [capacity |-> CapacityOf(cfg, r), users |-> {}, queue |-> <<>>]]
            /\ yard' = [capacity |-> cfg.yard_capacity, level |-> 0,
                        putq |-> <<>>, getq |-> <<>>]
            /\ queue' = << Ev(0, 0, "init", GenShip, "", NoItem),
                           Ev(0, 0, "init", GenExport, "", NoItem),
                           Ev(0, 0, "init", GenTruck, "", NoItem) >>
            /\ pc' = [pc EXCEPT ![GenShip] = "new", ![GenExport] = "new", ![GenTruck] = "new"]
       ELSE /\ phase' = "error"
            /\ UNCHANGED <<res, yard, queue, pc>>
    /\ UNCHANGED <<cfg, now, store, loc, ts, tm, metrics, df, stats, ov, tas, ag, rt, ves>>

\* arrival_generator, from its start to its first yield.
arrival_generator_start ==
    /\ At(GenShip, "init", "new")
    /\ now' = E.t
    /\ IF cfg.p_import + cfg.p_transship <= 0
       THEN /\ SetK(K0)
            /\ pc' = [pc EXCEPT ![GenShip] = "done"]
            /\ UNCHANGED stats
       ELSE /\ \E ia \in ShipInterarrivals : SetK(Timeout(K0, GenShip, E.t, ia))
            /\ pc' = [pc EXCEPT ![GenShip] = "wait"]
            /\ stats' = [stats EXCEPT !.draws = @ + 1, !.timeouts = @ + 1]
    /\ UNCHANGED <<phase, cfg, loc, ts, tm, metrics, df, ov, tas, ag, rt, ves>>

\* arrival_generator, resumed after its timeout: past stop_time it stops,
\* before it a container process is started and the next arrival is drawn.
arrival_generator_wake ==
    /\ At(GenShip, "timeout", "wait")
    /\ now' = E.t
    /\ IF E.t >= cfg.sim_time_mins
       THEN /\ SetK(K0)
            /\ pc' = [pc EXCEPT ![GenShip] = "done"]
            /\ UNCHANGED <<loc, stats>>
       ELSE /\ loc[GenShip].n < MaxShips
            /\ LET c == <<"S", loc[GenShip].n>>
               IN  \E flow \in sample_ship_flow_type(cfg), ia \in ShipInterarrivals :
                      /\ SetK(Timeout(StartProcess(K0, c, E.t), GenShip, E.t, ia))
                      /\ pc' = [pc EXCEPT ![c] = "new"]
                      /\ loc' = [loc EXCEPT ![c].flow = flow, ![GenShip].n = @ + 1]
            /\ stats' = [stats EXCEPT !.draws = @ + 2, !.timeouts = @ + 1,
                                      !.entities = @ + 1]
    /\ UNCHANGED <<phase, cfg, ts, tm, metrics, df, ov, tas, ag, rt, ves>>

\* export_arrival_generator, from its start to its first yield.
export_arrival_generator_start ==
    /\ At(GenExport, "init", "new")
    /\ now' = E.t
    /\ IF cfg.p_export <= 0
       THEN /\ SetK(K0)
            /\ pc' = [pc EXCEPT ![GenExport] = "done"]
            /\ UNCHANGED stats
       ELSE /\ \E ia \in ExportInterarrivals : SetK(Timeout(K0, GenExport, E.t, ia))
            /\ pc' = [pc EXCEPT ![GenExport] = "wait"]
            /\ stats' = [stats EXCEPT !.draws = @ + 1, !.timeouts = @ + 1]
    /\ UNCHANGED <<phase, cfg, loc, ts, tm, metrics, df, ov, tas, ag, rt, ves>>

\* export_arrival_generator, resumed after its timeout.
export_arrival_generator_wake ==
    /\ At(GenExport, "timeout", "wait")
    /\ now' = E.t
    /\ IF E.t >= cfg.sim_time_mins
       THEN /\ SetK(K0)
            /\ pc' = [pc EXCEPT ![GenExport] = "done"]
            /\ UNCHANGED <<loc, stats>>
       ELSE /\ loc[GenExport].n < MaxExports
            /\ LET c == <<"E", loc[GenExport].n>>
               IN  \E ia \in ExportInterarrivals :
                      /\ SetK(Timeout(StartProcess(K0, c, E.t), GenExport, E.t, ia))
                      /\ pc' = [pc EXCEPT ![c] = "new"]
                      /\ loc' = [loc EXCEPT ![c].flow = "EXPORT", ![GenExport].n = @ + 1]
            /\ stats' = [stats EXCEPT !.draws = @ + 1, !.timeouts = @ + 1,
                                      !.entities = @ + 1]
    /\ UNCHANGED <<phase, cfg, ts, tm, metrics, df, ov, tas, ag, rt, ves>>

\* build_truck_teu_rate_fn accepts the vector.
RateVectorValid(rates) == Len(rates) = 24

\* rate_fn(t_min) of build_truck_teu_rate_fn.
rate_fn(rates, t) == rates[((t \div 60) % 24) + 1]

\* random.expovariate(truck_rate_per_min) at time t, whole-minute outcomes:
\* the mean 60 * truck_capacity_teu / rate and its multiples.
TruckInterarrivalDraws(c, t) ==
    LET mean == Max(1, (60 * c.truck_capacity_teu) \div rate_fn(c.hourly_truck_teu_rate, t))
    IN  {mean * j : j \in TruckInterarrivals}

\* The while loop of truck_arrival_generator from its top at time t to the
\* next yield or break; pcs and st are pc and stats as the caller leaves them.
truck_arrival_generator_loop(K, t, pcs, st) ==
    IF t >= cfg.sim_time_mins
    THEN /\ SetK(K)
         /\ pc' = [pcs EXCEPT ![GenTruck] = "done"]
         /\ stats' = st
    ELSE IF cfg.truck_capacity_teu = 0
    THEN \* current_teu_rate / 0 raises ZeroDivisionError
         /\ SetK([K EXCEPT !.queue = Schedule(@, Ev(t, 1, "fail", GenTruck, "", NoItem))])
         /\ pc' = [pcs EXCEPT ![GenTruck] = "failed"]
         /\ stats' = st
    ELSE IF rate_fn(cfg.hourly_truck_teu_rate, t) * cfg.truck_capacity_teu <= 0
    THEN /\ SetK(Timeout(K, GenTruck, t, 60 - (t % 60)))
         /\ pc' = [pcs EXCEPT ![GenTruck] = "skip"]
         /\ stats' = [st EXCEPT !.timeouts = @ + 1]
    ELSE /\ \E ia \in TruckInterarrivalDraws(cfg, t) : SetK(Timeout(K, GenTruck, t, ia))
         /\ pc' = [pcs EXCEPT ![GenTruck] = "wait"]
         /\ stats' = [st EXCEPT !.draws = @ + 1, !.timeouts = @ + 1]

\* truck_arrival_generator, from its start to its first yield: the rate
\* vector is checked here, when the generator first runs.
truck_arrival_generator_start ==
    /\ At(GenTruck, "init", "new")
    /\ now' = E.t
    /\ IF RateVectorValid(cfg.hourly_truck_teu_rate)
       THEN truck_arrival_generator_loop(K0, E.t, pc, stats)
       ELSE /\ SetK([K0 EXCEPT !.queue = Schedule(@, Ev(E.t, 1, "fail", GenTruck, "", NoItem))])
            /\ pc' = [pc EXCEPT ![GenTruck] = "failed"]
            /\ UNCHANGED stats
    /\ UNCHANGED <<phase, cfg, loc, ts, tm, metrics, df, ov, tas, ag, rt, ves>>

\* truck_arrival_generator, resumed after waiting for the next hour.
truck_arrival_generator_skip ==
    /\ At(GenTruck, "timeout", "skip")
    /\ now' = E.t
    /\ truck_arrival_generator_loop(K0, E.t, pc, stats)
    /\ UNCHANGED <<phase, cfg, loc, ts, tm, metrics, df, ov, tas, ag, rt, ves>>

\* truck_arrival_generator, resumed after an interarrival time.
truck_arrival_generator_wake ==
    /\ At(GenTruck, "timeout", "wait")
    /\ now' = E.t
    /\ IF E.t >= cfg.sim_time_mins
       THEN /\ SetK(K0)
            /\ pc' = [pc EXCEPT ![GenTruck] = "done"]
            /\ UNCHANGED <<loc, stats>>
       ELSE /\ loc[GenTruck].n < MaxTrucks
            /\ LET k == <<"T", loc[GenTruck].n>>
               IN  /\ truck_arrival_generator_loop(StartProcess(K0, k, E.t), E.t,
                                         [pc EXCEPT ![k] = "new"],
                                         [stats EXCEPT !.entities = @ + 1])
                   /\ loc' = [loc EXCEPT ![GenTruck].n = @ + 1]
    /\ UNCHANGED <<phase, cfg, ts, tm, metrics, df, ov, tas, ag, rt, ves>>

\* A release event is processed: the resource's waiting requests are looked at.
release_processed ==
    /\ Running /\ E.kind = "release"
    /\ now' = E.t
    /\ SetK(TriggerPutRes(K0, E.r, E.t))
    /\ UNCHANGED <<phase, cfg, pc, loc, ts, tm, metrics, df, stats, ov, tas, ag, rt, ves>>

\* The event of a process that raised is processed: env.run, and with it
\* run_simulation, raises the error.
run_simulation_raises ==
    /\ Running /\ E.kind = "fail"
    /\ now' = E.t
    /\ phase' = "error"
    /\ SetK(K0)
    /\ UNCHANGED <<cfg, pc, loc, ts, tm, metrics, df, stats, ov, tas, ag, rt, ves>>

-----------------------------------------------------------------------------
(* container_process: one action per stretch of code between two yields.   *)

\* record_container_metrics(container_id, t): a copy of t is appended.
record_container_metrics(m, c, t) ==
    Append(m, [container_id |-> c, flow_type |-> loc[c].flow, teu_size |-> loc[c].teu,
               t |-> t])

\* From the start to the crane request.
container_process_start(c) ==
    /\ At(c, "init", "new")
    /\ now' = E.t
    /\ \E teu \in sample_teu_size(cfg) : loc' = [loc EXCEPT ![c].teu = teu]
    /\ ts' = [ts EXCEPT ![c] = Stamp(@, [arrival_time |-> E.t])]
    /\ SetK(Request(K0, "cranes", c, E.t))
    /\ pc' = [pc EXCEPT ![c] = "crane_req"]
    /\ Count("draws", 1)
    /\ UNCHANGED <<phase, cfg, tm, metrics, df, ov, tas, ag, rt, ves>>

\* The crane is granted: the crane service starts.
container_process_crane_granted(c) ==
    /\ At(c, "req", "crane_req")
    /\ now' = E.t
    /\ ts' = [ts EXCEPT ![c] = Stamp(@, [crane_start |-> E.t])]
    /\ SetK(Timeout(K0, c, E.t, crane_time_mins(cfg)))
    /\ pc' = [pc EXCEPT ![c] = "crane_service"]
    /\ Count("timeouts", 1)
    /\ UNCHANGED <<phase, cfg, loc, tm, metrics, df, ov, tas, ag, rt, ves>>

\* The crane service ends: the crane is released, then yard.put(teu_size).
container_process_crane_done(c) ==
    /\ At(c, "timeout", "crane_service")
    /\ now' = E.t
    /\ ts' = [ts EXCEPT ![c] = Stamp(@, [crane_end |-> E.t])]
    /\ SetK(YardPut(Release(K0, "cranes", c, E.t), c, loc[c].teu, E.t))
    /\ pc' = [pc EXCEPT ![c] = "yard_put"]
    /\ UNCHANGED <<phase, cfg, loc, tm, metrics, df, stats, ov, tas, ag, rt, ves>>

\* A dwell drawn from the import table, offset included, whatever the flow type.
ContainerDwellAsImport(c, flow) == sample_import_dwell_minutes(c)

\* The dwell a ship container of this flow type samples.
ContainerDwell(c, flow) ==
    IF flow = "IMPORT" THEN sample_import_dwell_minutes(c)
    ELSE IF flow = "TRANSSHIP" THEN sample_transship_dwell_minutes(c)
    ELSE {0}

\* yard.put succeeded: the container is in the yard and dwells.
container_process_yard_entered(c) ==
    /\ At(c, "yput", "yard_put")
    /\ now' = E.t
    /\ ts' = [ts EXCEPT ![c] = Stamp(@, [yard_entry_time |-> E.t])]
    /\ \E d \in ContainerDwell(cfg, loc[c].flow) :
          SetK(Timeout(TriggerGetYard(K0, E.t), c, E.t, d))
    /\ pc' = [pc EXCEPT ![c] = "dwell"]
    /\ stats' = [stats EXCEPT !.draws = @ + 1, !.timeouts = @ + 1]
    /\ UNCHANGED <<phase, cfg, loc, tm, metrics, df, ov, tas, ag, rt, ves>>

\* The dwell ends: an IMPORT container asks for yard equipment to go to the
\* scanner, any other flow type asks for it to go to the loader.
container_process_dwell_done(c) ==
    /\ At(c, "timeout", "dwell")
    /\ now' = E.t
    /\ SetK(Request(K0, "yard_equipment", c, E.t))
    /\ IF loc[c].flow = "IMPORT"
       THEN /\ ts' = [ts EXCEPT ![c] = Stamp(@,
                         [pickup_request_time |-> E.t,
                          scanner_queue_len_at_pickup |-> Len(res["scanners"].queue),
                          loader_queue_len_at_pickup |-> Len(res["loaders"].queue),
                          yard_exit_time |-> E.t,
                          yard_to_scan_queue_enter |-> E.t])]
            /\ pc' = [pc EXCEPT ![c] = "ye_scan_req"]
       ELSE /\ ts' = [ts EXCEPT ![c] = Stamp(@,
                         [pickup_request_time |-> E.t,
                          scanner_queue_len_at_pickup |-> Len(res["scanners"].queue),
                          loader_queue_len_at_pickup |-> Len(res["loaders"].queue),
                          yard_exit_time |-> E.t,
                          yard_to_truck_queue_enter |-> E.t])]
            /\ pc' = [pc EXCEPT ![c] = "ye_truck_req"]
    /\ UNCHANGED <<phase, cfg, loc, tm, metrics, df, stats, ov, tas, ag, rt, ves>>

\* Yard equipment is granted for the move to the scanner.
container_process_scan_move_granted(c) ==
    /\ At(c, "req", "ye_scan_req")
    /\ now' = E.t
    /\ ts' = [ts EXCEPT ![c] = Stamp(@,
                 [yard_to_scan_start |-> E.t,
                  occupancy_at_yard_to_scan |-> Occupancy(cfg, yard.level)])]
    /\ \E d \in sample_yard_move_time(cfg, yard.level) : SetK(Timeout(K0, c, E.t, d))
    /\ pc' = [pc EXCEPT ![c] = "ye_scan_move"]
    /\ stats' = [stats EXCEPT !.draws = @ + 1, !.timeouts = @ + 1]
    /\ UNCHANGED <<phase, cfg, loc, tm, metrics, df, ov, tas, ag, rt, ves>>

\* The move to the scanner ends: yard equipment is released, a scanner requested.
container_process_scan_move_done(c) ==
    /\ At(c, "timeout", "ye_scan_move")
    /\ now' = E.t
    /\ ts' = [ts EXCEPT ![c] = Stamp(@, [yard_to_scan_end |-> E.t, scan_queue_enter |-> E.t])]
    /\ SetK(Request(Release(K0, "yard_equipment", c, E.t), "scanners", c, E.t))
    /\ pc' = [pc EXCEPT ![c] = "scan_req"]
    /\ UNCHANGED <<phase, cfg, loc, tm, metrics, df, stats, ov, tas, ag, rt, ves>>

\* The scanner is granted: the scan starts.
container_process_scan_granted(c) ==
    /\ At(c, "req", "scan_req")
    /\ now' = E.t
    /\ ts' = [ts EXCEPT ![c] = Stamp(@, [scan_start |-> E.t])]
    /\ SetK(Timeout(K0, c, E.t, cfg.scan_time_mins))
    /\ pc' = [pc EXCEPT ![c] = "scan_service"]
    /\ Count("timeouts", 1)
    /\ UNCHANGED <<phase, cfg, loc, tm, metrics, df, ov, tas, ag, rt, ves>>

\* The scan ends: the scanner is released and the container is put into
\* ready_store, its timestamp dict with it.
container_process_scan_done(c) ==
    /\ At(c, "timeout", "scan_service")
    /\ now' = E.t
    /\ ts' = [ts EXCEPT ![c] = Stamp(@, [scan_end |-> E.t, ready_time |-> E.t])]
    /\ SetK(StorePut(Release(K0, "scanners", c, E.t), c, Item(c, loc[c].teu), E.t))
    /\ pc' = [pc EXCEPT ![c] = "store_put"]
    /\ UNCHANGED <<phase, cfg, loc, tm, metrics, df, stats, ov, tas, ag, rt, ves>>

\* ready_store.put succeeded: waiting trucks are served and the process returns.
container_process_ready(c) ==
    /\ At(c, "sput", "store_put")
    /\ now' = E.t
    /\ SetK(StoreGetLoop(K0, 1, E.t))
    /\ pc' = [pc EXCEPT ![c] = "ready"]
    /\ UNCHANGED <<phase, cfg, loc, ts, tm, metrics, df, stats, ov, tas, ag, rt, ves>>

\* Yard equipment is granted for the move to the loader (container_process
\* for a flow type other than IMPORT, and export_container_process).
container_process_truck_move_granted(c) ==
    /\ At(c, "req", "ye_truck_req")
    /\ now' = E.t
    /\ ts' = [ts EXCEPT ![c] = Stamp(@,
                 [yard_to_truck_start |-> E.t,
                  occupancy_at_yard_to_truck |-> Occupancy(cfg, yard.level)])]
    /\ \E d \in sample_yard_move_time(cfg, yard.level) : SetK(Timeout(K0, c, E.t, d))
    /\ pc' = [pc EXCEPT ![c] = "ye_truck_move"]
    /\ stats' = [stats EXCEPT !.draws = @ + 1, !.timeouts = @ + 1]
    /\ UNCHANGED <<phase, cfg, loc, tm, metrics, df, ov, tas, ag, rt, ves>>

\* The move ends: yard equipment is released and the container's TEU are
\* taken out of the yard.
container_process_truck_move_done(c) ==
    /\ At(c, "timeout", "ye_truck_move")
    /\ now' = E.t
    /\ IF loc[c].teu > 0
       THEN /\ ts' = [ts EXCEPT ![c] = Stamp(@, [yard_to_truck_end |-> E.t])]
            /\ SetK(YardGet(Release(K0, "yard_equipment", c, E.t), c, loc[c].teu, E.t))
            /\ pc' = [pc EXCEPT ![c] = "yard_get"]
       ELSE /\ ts' = [ts EXCEPT ![c] = Stamp(@, [yard_to_truck_end |-> E.t,
                                                  loading_queue_enter |-> E.t])]
            /\ SetK(Request(Release(K0, "yard_equipment", c, E.t), "loaders", c, E.t))
            /\ pc' = [pc EXCEPT ![c] = "load_req"]
    /\ UNCHANGED <<phase, cfg, loc, tm, metrics, df, stats, ov, tas, ag, rt, ves>>

\* yard.get succeeded: a loader is requested.
container_process_yard_left(c) ==
    /\ At(c, "yget", "yard_get")
    /\ now' = E.t
    /\ ts' = [ts EXCEPT ![c] = Stamp(@, [loading_queue_enter |-> E.t])]
    /\ SetK(Request(TriggerPutYard(K0, E.t), "loaders", c, E.t))
    /\ pc' = [pc EXCEPT ![c] = "load_req"]
    /\ UNCHANGED <<phase, cfg, loc, tm, metrics, df, stats, ov, tas, ag, rt, ves>>

\* The loader is granted: loading starts.
container_process_load_granted(c) ==
    /\ At(c, "req", "load_req")
    /\ now' = E.t
    /\ ts' = [ts EXCEPT ![c] = Stamp(@, [loading_start |-> E.t])]
    /\ \E d \in sample_loading_time(cfg) : SetK(Timeout(K0, c, E.t, d))
    /\ pc' = [pc EXCEPT ![c] = "load_service"]
    /\ stats' = [stats EXCEPT !.draws = @ + 1, !.timeouts = @ + 1]
    /\ UNCHANGED <<phase, cfg, loc, tm, metrics, df, ov, tas, ag, rt, ves>>

\* Loading ends: the loader is released and the container's record is emitted.
container_process_load_done(c) ==
    /\ At(c, "timeout", "load_service")
    /\ now' = E.t
    /\ LET t == Stamp(ts[c], [loading_end |-> E.t, exit_time |-> E.t])
       IN  /\ ts' = [ts EXCEPT ![c] = t]
           /\ metrics' = record_container_metrics(metrics, c, t)
    /\ SetK(Release(K0, "loaders", c, E.t))
    /\ pc' = [pc EXCEPT ![c] = "done"]
    /\ UNCHANGED <<phase, cfg, loc, tm, df, stats, ov, tas, ag, rt, ves>>

-----------------------------------------------------------------------------
(* export_container_process, up to its yard-equipment request; from there  *)
(* its code is that of container_process for a non-IMPORT container.       *)

export_container_process_start(c) ==
    /\ At(c, "init", "new")
    /\ now' = E.t
    /\ \E teu \in sample_teu_size(cfg) : loc' = [loc EXCEPT ![c].teu = teu]
    /\ ts' = [ts EXCEPT ![c] = Stamp(@, [arrival_time |-> E.t, gate_in_queue_enter |-> E.t])]
    /\ SetK(Request(K0, "gate_in", c, E.t))
    /\ pc' = [pc EXCEPT ![c] = "gate_in_req"]
    /\ Count("draws", 1)
    /\ UNCHANGED <<phase, cfg, tm, metrics, df, ov, tas, ag, rt, ves>>

export_container_process_gate_in_granted(c) ==
    /\ At(c, "req", "gate_in_req")
    /\ now' = E.t
    /\ ts' = [ts EXCEPT ![c] = Stamp(@, [gate_in_start |-> E.t])]
    /\ \E d \in sample_gate_in_time(cfg) : SetK(Timeout(K0, c, E.t, d))
    /\ pc' = [pc EXCEPT ![c] = "gate_in_service"]
    /\ stats' = [stats EXCEPT !.draws = @ + 1, !.timeouts = @ + 1]
    /\ UNCHANGED <<phase, cfg, loc, tm, metrics, df, ov, tas, ag, rt, ves>>

export_container_process_gate_in_done(c) ==
    /\ At(c, "timeout", "gate_in_service")
    /\ now' = E.t
    /\ ts' = [ts EXCEPT ![c] = Stamp(@, [gate_in_end |-> E.t])]
    /\ SetK(YardPut(Release(K0, "gate_in", c, E.t), c, loc[c].teu, E.t))
    /\ pc' = [pc EXCEPT ![c] = "yard_put"]
    /\ UNCHANGED <<phase, cfg, loc, tm, metrics, df, stats, ov, tas, ag, rt, ves>>

export_container_process_yard_entered(c) ==
    /\ At(c, "yput", "yard_put")
    /\ now' = E.t
    /\ ts' = [ts EXCEPT ![c] = Stamp(@, [yard_entry_time |-> E.t])]
    /\ \E d \in sample_export_dwell_minutes(cfg) :
          SetK(Timeout(TriggerGetYard(K0, E.t), c, E.t, d))
    /\ pc' = [pc EXCEPT ![c] = "dwell"]
    /\ stats' = [stats EXCEPT !.draws = @ + 1, !.timeouts = @ + 1]
    /\ UNCHANGED <<phase, cfg, loc, tm, metrics, df, ov, tas, ag, rt, ves>>

export_container_process_dwell_done(c) ==
    /\ At(c, "timeout", "dwell")
    /\ now' = E.t
    /\ ts' = [ts EXCEPT ![c] = Stamp(@, [pickup_request_time |-> E.t, yard_exit_time |-> E.t,
                                          yard_to_truck_queue_enter |-> E.t])]
    /\ SetK(Request(K0, "yard_equipment", c, E.t))
    /\ pc' = [pc EXCEPT ![c] = "ye_truck_req"]
    /\ UNCHANGED <<phase, cfg, loc, tm, metrics, df, stats, ov, tas, ag, rt, ves>>

-----------------------------------------------------------------------------
(* select_containers_for_truck, run as a process of its own for truck k.   *)

Sel(k) == <<"sel", k[2]>>
TruckOf(sp) == <<"T", sp[2]>>

\* A pool in which no item of the asked size is ever seen.
HasTeuNever(items, n) == FALSE

HasTeu(items, n) == \E i \in 1 .. Len(items) : items[i].teu = n
CountTeu(items, n) == Cardinality({i \in 1 .. Len(items) : items[i].teu = n})

\* The process returns: its event, which resumes the truck, is scheduled.
SelectReturn(K, sp, t) ==
    [K EXCEPT !.queue = Schedule(@, Ev(t, 1, "procdone", TruckOf(sp), "", NoItem))]

\* From the start to the first ready_store.get: the store's items decide
\* which get is made.
select_containers_for_truck_start(sp) ==
    /\ At(sp, "init", "new")
    /\ now' = E.t
    /\ LET items == store.items
           cap == cfg.truck_capacity_teu
       IN  IF items = <<>>
           THEN /\ SetK(StoreGet(K0, sp, "any", E.t))
                /\ pc' = [pc EXCEPT ![sp] = "first"]
           ELSE IF cap >= 2 /\ HasTeu(items, 2)
           THEN /\ SetK(StoreGet(K0, sp, "teu2", E.t))
                /\ pc' = [pc EXCEPT ![sp] = "single_teu2"]
           ELSE IF cap >= 2 /\ CountTeu(items, 1) >= 2
           THEN /\ SetK(StoreGet(K0, sp, "teu1", E.t))
                /\ pc' = [pc EXCEPT ![sp] = "pair_first"]
           ELSE IF CountTeu(items, 1) = 1
           THEN /\ SetK(StoreGet(K0, sp, "teu1", E.t))
                /\ pc' = [pc EXCEPT ![sp] = "single_teu1"]
           ELSE /\ SetK(StoreGet(K0, sp, "any", E.t))
                /\ pc' = [pc EXCEPT ![sp] = "single_any"]
    /\ UNCHANGED <<phase, cfg, loc, ts, tm, metrics, df, stats, ov, tas, ag, rt, ves>>

\* The store was empty and the awaited first item arrives: a second 1-TEU
\* item is asked for when the truck has room and one is there.
select_containers_for_truck_first(sp) ==
    /\ At(sp, "sget", "first")
    /\ now' = E.t
    /\ loc' = [loc EXCEPT ![sp].items = <<E.item>>]
    /\ IF cfg.truck_capacity_teu >= 2 /\ E.item.teu = 1 /\ HasTeu(store.items, 1)
       THEN /\ SetK(StoreGet(K0, sp, "teu1", E.t))
            /\ pc' = [pc EXCEPT ![sp] = "second"]
       ELSE /\ SetK(SelectReturn(K0, sp, E.t))
            /\ pc' = [pc EXCEPT ![sp] = "done"]
    /\ UNCHANGED <<phase, cfg, ts, tm, metrics, df, stats, ov, tas, ag, rt, ves>>

\* The second item of the empty-store path arrives.
select_containers_for_truck_second(sp) ==
    /\ At(sp, "sget", "second")
    /\ now' = E.t
    /\ loc' = [loc EXCEPT ![sp].items = Append(@, E.item)]
    /\ SetK(SelectReturn(K0, sp, E.t))
    /\ pc' = [pc EXCEPT ![sp] = "done"]
    /\ UNCHANGED <<phase, cfg, ts, tm, metrics, df, stats, ov, tas, ag, rt, ves>>

\* The one item of a single-item choice (the 2-TEU get, the one 1-TEU get or
\* the unfiltered get) arrives.
select_containers_for_truck_single(sp) ==
    /\ \E l \in {"single_teu2", "single_teu1", "single_any"} : At(sp, "sget", l)
    /\ now' = E.t
    /\ loc' = [loc EXCEPT ![sp].items = <<E.item>>]
    /\ SetK(SelectReturn(K0, sp, E.t))
    /\ pc' = [pc EXCEPT ![sp] = "done"]
    /\ UNCHANGED <<phase, cfg, ts, tm, metrics, df, stats, ov, tas, ag, rt, ves>>

\* The first of two 1-TEU items arrives: the second is asked for.
select_containers_for_truck_pair_first(sp) ==
    /\ At(sp, "sget", "pair_first")
    /\ now' = E.t
    /\ loc' = [loc EXCEPT ![sp].items = <<E.item>>]
    /\ SetK(StoreGet(K0, sp, "teu1", E.t))
    /\ pc' = [pc EXCEPT ![sp] = "pair_second"]
    /\ UNCHANGED <<phase, cfg, ts, tm, metrics, df, stats, ov, tas, ag, rt, ves>>

\* The second of two 1-TEU items arrives.
select_containers_for_truck_pair_second(sp) ==
    /\ At(sp, "sget", "pair_second")
    /\ now' = E.t
    /\ loc' = [loc EXCEPT ![sp].items = Append(@, E.item)]
    /\ SetK(SelectReturn(K0, sp, E.t))
    /\ pc' = [pc EXCEPT ![sp] = "done"]
    /\ UNCHANGED <<phase, cfg, ts, tm, metrics, df, stats, ov, tas, ag, rt, ves>>

-----------------------------------------------------------------------------
(* truck_process *)

RECURSIVE SumTeu(_)
SumTeu(items) == IF items = <<>> THEN 0 ELSE Head(items).teu + SumTeu(Tail(items))

truck_process_start(k) ==
    /\ At(k, "init", "new")
    /\ now' = E.t
    /\ tm' = [tm EXCEPT ![k] = Stamp(@, [gate_in_queue_enter |-> E.t])]
    /\ SetK(Request(K0, "gate_in", k, E.t))
    /\ pc' = [pc EXCEPT ![k] = "gate_in_req"]
    /\ UNCHANGED <<phase, cfg, loc, ts, metrics, df, stats, ov, tas, ag, rt, ves>>

truck_process_gate_in_granted(k) ==
    /\ At(k, "req", "gate_in_req")
    /\ now' = E.t
    /\ tm' = [tm EXCEPT ![k] = Stamp(@, [gate_in_start |-> E.t])]
    /\ \E d \in sample_gate_in_time(cfg) : SetK(Timeout(K0, k, E.t, d))
    /\ pc' = [pc EXCEPT ![k] = "gate_in_service"]
    /\ stats' = [stats EXCEPT !.draws = @ + 1, !.timeouts = @ + 1]
    /\ UNCHANGED <<phase, cfg, loc, ts, metrics, df, ov, tas, ag, rt, ves>>

\* Gate-in ends: the gate is released and the selection process is started.
truck_process_gate_in_done(k) ==
    /\ At(k, "timeout", "gate_in_service")
    /\ now' = E.t
    /\ tm' = [tm EXCEPT ![k] = Stamp(@, [gate_in_end |-> E.t, pickup_start |-> E.t])]
    /\ SetK(StartProcess(Release(K0, "gate_in", k, E.t), Sel(k), E.t))
    /\ pc' = [pc EXCEPT ![k] = "selecting", ![Sel(k)] = "new"]
    /\ UNCHANGED <<phase, cfg, loc, ts, metrics, df, stats, ov, tas, ag, rt, ves>>

\* The selection returned its containers: yard equipment is requested.
truck_process_picked(k) ==
    /\ At(k, "procdone", "selecting")
    /\ now' = E.t
    /\ LET containers == loc[Sel(k)].items
       IN  /\ loc' = [loc EXCEPT ![k].items = containers, ![k].teu = SumTeu(containers)]
           /\ tm' = [tm EXCEPT ![k] = Stamp(@,
                        [pickup_end |-> E.t, picked_teu |-> SumTeu(containers),
                         picked_containers |-> Len(containers),
                         yard_to_truck_queue_enter |-> E.t])]
    /\ SetK(Request(K0, "yard_equipment", k, E.t))
    /\ pc' = [pc EXCEPT ![k] = "ye_req"]
    /\ UNCHANGED <<phase, cfg, ts, metrics, df, stats, ov, tas, ag, rt, ves>>

truck_process_move_granted(k) ==
    /\ At(k, "req", "ye_req")
    /\ now' = E.t
    /\ tm' = [tm EXCEPT ![k] = Stamp(@,
                 [yard_to_truck_start |-> E.t,
                  occupancy_at_yard_to_truck |-> Occupancy(cfg, yard.level)])]
    /\ \E d \in sample_yard_move_time(cfg, yard.level) : SetK(Timeout(K0, k, E.t, d))
    /\ pc' = [pc EXCEPT ![k] = "ye_move"]
    /\ stats' = [stats EXCEPT !.draws = @ + 1, !.timeouts = @ + 1]
    /\ UNCHANGED <<phase, cfg, loc, ts, metrics, df, ov, tas, ag, rt, ves>>

\* The move ends: yard equipment is released and the picked TEU leave the yard.
truck_process_move_done(k) ==
    /\ At(k, "timeout", "ye_move")
    /\ now' = E.t
    /\ IF loc[k].teu > 0
       THEN /\ tm' = [tm EXCEPT ![k] = Stamp(@, [yard_to_truck_end |-> E.t])]
            /\ SetK(YardGet(Release(K0, "yard_equipment", k, E.t), k, loc[k].teu, E.t))
            /\ pc' = [pc EXCEPT ![k] = "yard_get"]
       ELSE /\ tm' = [tm EXCEPT ![k] = Stamp(@, [yard_to_truck_end |-> E.t,
                                                  loading_queue_enter |-> E.t])]
            /\ SetK(Request(Release(K0, "yard_equipment", k, E.t), "loaders", k, E.t))
            /\ pc' = [pc EXCEPT ![k] = "load_req"]
    /\ UNCHANGED <<phase, cfg, loc, ts, metrics, df, stats, ov, tas, ag, rt, ves>>

truck_process_yard_left(k) ==
    /\ At(k, "yget", "yard_get")
    /\ now' = E.t
    /\ tm' = [tm EXCEPT ![k] = Stamp(@, [loading_queue_enter |-> E.t])]
    /\ SetK(Request(TriggerPutYard(K0, E.t), "loaders", k, E.t))
    /\ pc' = [pc EXCEPT ![k] = "load_req"]
    /\ UNCHANGED <<phase, cfg, loc, ts, metrics, df, stats, ov, tas, ag, rt, ves>>

truck_process_load_granted(k) ==
    /\ At(k, "req", "load_req")
    /\ now' = E.t
    /\ tm' = [tm EXCEPT ![k] = Stamp(@, [loading_start |-> E.t])]
    /\ \E d \in sample_loading_time(cfg) : SetK(Timeout(K0, k, E.t, d))
    /\ pc' = [pc EXCEPT ![k] = "load_service"]
    /\ stats' = [stats EXCEPT !.draws = @ + 1, !.timeouts = @ + 1]
    /\ UNCHANGED <<phase, cfg, loc, ts, metrics, df, ov, tas, ag, rt, ves>>

truck_process_load_done(k) ==
    /\ At(k, "timeout", "load_service")
    /\ now' = E.t
    /\ tm' = [tm EXCEPT ![k] = Stamp(@, [loading_end |-> E.t, gate_out_queue_enter |-> E.t])]
    /\ SetK(Request(Release(K0, "loaders", k, E.t), "gate_out", k, E.t))
    /\ pc' = [pc EXCEPT ![k] = "gate_out_req"]
    /\ UNCHANGED <<phase, cfg, loc, ts, metrics, df, stats, ov, tas, ag, rt, ves>>

truck_process_gate_out_granted(k) ==
    /\ At(k, "req", "gate_out_req")
    /\ now' = E.t
    /\ tm' = [tm EXCEPT ![k] = Stamp(@, [gate_out_start |-> E.t])]
    /\ \E d \in sample_gate_out_time(cfg) : SetK(Timeout(K0, k, E.t, d))
    /\ pc' = [pc EXCEPT ![k] = "gate_out_service"]
    /\ stats' = [stats EXCEPT !.draws = @ + 1, !.timeouts = @ + 1]
    /\ UNCHANGED <<phase, cfg, loc, ts, metrics, df, ov, tas, ag, rt, ves>>

\* A back-fill that takes the exit time from the wrong key of tm.
BackfillWrongExit(t, m) ==
    Stamp(t, [gate_in_queue_enter |-> m["gate_in_queue_enter"],
              pickup_time |-> m["pickup_end"],
              gate_out_exit_time |-> m["gate_in_start"],
              exit_time |-> m["gate_in_start"]])

\* The truck's timestamps written into a carried container's dict.
Backfill(t, m) ==
    Stamp(t, [gate_in_queue_enter |-> m["gate_in_queue_enter"],
              gate_in_start |-> m["gate_in_start"],
              gate_in_end |-> m["gate_in_end"],
              pickup_time |-> m["pickup_end"],
              yard_to_truck_queue_enter |-> m["yard_to_truck_queue_enter"],
              yard_to_truck_start |-> m["yard_to_truck_start"],
              yard_to_truck_end |-> m["yard_to_truck_end"],
              occupancy_at_yard_to_truck |-> m["occupancy_at_yard_to_truck"],
              loading_queue_enter |-> m["loading_queue_enter"],
              loading_start |-> m["loading_start"],
              loading_end |-> m["loading_end"],
              gate_queue_enter |-> m["gate_out_queue_enter"],
              gate_start |-> m["gate_out_start"],
              gate_out_exit_time |-> m["gate_out_end"],
              exit_time |-> m["gate_out_end"]])

\* A final loop that emits the first carried container only.
EmitCarriedFirst(m, containers, tsNew) ==
    IF containers = <<>> THEN m
    ELSE record_container_metrics(m, Head(containers).c, tsNew[Head(containers).c])

\* A final loop that emits the carried containers last claimed first.
RECURSIVE EmitCarriedReversed(_, _, _)
EmitCarriedReversed(m, containers, tsNew) ==
    IF containers = <<>> THEN m
    ELSE record_container_metrics(EmitCarriedReversed(m, Tail(containers), tsNew),
                                  Head(containers).c, tsNew[Head(containers).c])

\* The final loop of truck_process over the carried containers.
RECURSIVE EmitCarried(_, _, _)
EmitCarried(m, containers, tsNew) ==
    IF containers = <<>> THEN m
    ELSE EmitCarried(record_container_metrics(m, Head(containers).c, tsNew[Head(containers).c]),
                     Tail(containers), tsNew)

\* Gate-out ends: the gate is released, every carried container's dict is
\* back-filled and its record emitted.
truck_process_gate_out_done(k) ==
    /\ At(k, "timeout", "gate_out_service")
    /\ now' = E.t
    /\ LET m == Stamp(tm[k], [gate_out_end |-> E.t])
           carried == {loc[k].items[i].c : i \in 1 .. Len(loc[k].items)}
           tsNew == [c \in Containers |-> IF c \in carried THEN Backfill(ts[c], m) ELSE ts[c]]
       IN  /\ tm' = [tm EXCEPT ![k] = m]
           /\ ts' = tsNew
           /\ metrics' = EmitCarried(metrics, loc[k].items, tsNew)
    /\ SetK(Release(K0, "gate_out", k, E.t))
    /\ pc' = [pc EXCEPT ![k] = "done"]
    /\ UNCHANGED <<phase, cfg, loc, df, stats, ov, tas, ag, rt, ves>>

-----------------------------------------------------------------------------
(* metrics_to_dataframe.  A table is [columns, rows]; a row holds every    *)
(* column of the model, None where the cell is NaN or the column absent.   *)

DerivedCols ==
    { "total_time", "yard_dwell", "dwell_terminal", "scan_wait", "yard_to_scan_wait",
      "yard_to_truck_wait", "ready_to_pickup_wait", "loading_wait", "gate_wait",
      "pre_pickup_wait", "yard_equipment_wait" }

\* Columns scaled to days and hours: only their presence is modelled.
ScaledCols == {"dwell_terminal_days", "pre_pickup_wait_hours"}

IdCols == {"container_id", "flow_type", "teu_size"}

\* Series.clip(lower=0) on one cell.
ClipLower(x) == IF x = None THEN None ELSE Max(0, x)

\* df[end_col] - df[start_col] on one row.
Minus(a, b) == IF a = None \/ b = None THEN None ELSE a - b

\* fillna(0) on one cell.
FillNa(x) == IF x = None THEN 0 ELSE x

\* A difference taken the wrong way round and not clipped.
_safe_diff_swapped(d, new_col, end_col, start_col) ==
    IF end_col \in d.columns /\ start_col \in d.columns
    THEN [columns |-> d.columns \cup {new_col},
          rows |-> [i \in 1 .. Len(d.rows) |->
                      [d.rows[i] EXCEPT !.v[new_col] =
                          Minus(d.rows[i].v[start_col], d.rows[i].v[end_col])]]]
    ELSE d

_safe_diff(d, new_col, end_col, start_col) ==
    IF end_col \in d.columns /\ start_col \in d.columns
    THEN [columns |-> d.columns \cup {new_col},
          rows |-> [i \in 1 .. Len(d.rows) |->
                      [d.rows[i] EXCEPT !.v[new_col] =
                          ClipLower(Minus(d.rows[i].v[end_col], d.rows[i].v[start_col]))]]]
    ELSE d

\* A yard_equipment_wait column that needs both of its sources.
YardEquipmentWaitBoth(d) ==
    IF "yard_to_scan_wait" \in d.columns /\ "yard_to_truck_wait" \in d.columns
    THEN [columns |-> d.columns \cup {"yard_equipment_wait"},
          rows |-> [i \in 1 .. Len(d.rows) |->
                      [d.rows[i] EXCEPT !.v["yard_equipment_wait"] =
                          FillNa(d.rows[i].v["yard_to_scan_wait"])
                          + FillNa(d.rows[i].v["yard_to_truck_wait"])]]]
    ELSE d

\* The yard_equipment_wait column.
YardEquipmentWait(d) ==
    IF "yard_to_scan_wait" \in d.columns \/ "yard_to_truck_wait" \in d.columns
    THEN [columns |-> d.columns \cup {"yard_equipment_wait"},
          rows |-> [i \in 1 .. Len(d.rows) |->
                      [d.rows[i] EXCEPT !.v["yard_equipment_wait"] =
                          (IF "yard_to_scan_wait" \in d.columns
                           THEN FillNa(d.rows[i].v["yard_to_scan_wait"]) ELSE 0)
                          + (IF "yard_to_truck_wait" \in d.columns
                             THEN FillNa(d.rows[i].v["yard_to_truck_wait"]) ELSE 0)]]]
    ELSE d

ScaledColumns(d) ==
    [d EXCEPT !.columns = @ \cup (IF "dwell_terminal" \in d.columns
                                  THEN {"dwell_terminal_days"} ELSE {})
                            \cup (IF "pre_pickup_wait" \in d.columns
                                  THEN {"pre_pickup_wait_hours"} ELSE {})]

\* pd.DataFrame(completed): a column for every key some record holds.
DataFrame(completed) ==
    [columns |-> IdCols \cup {f \in TsFields :
                                 \E i \in 1 .. Len(completed) : completed[i].t[f] # None},
     rows |-> [i \in 1 .. Len(completed) |->
                 [container_id |-> completed[i].container_id,
                  flow_type |-> completed[i].flow_type,
                  teu_size |-> completed[i].teu_size,
                  v |-> [col \in TsFields \cup DerivedCols |->
                            IF col \in TsFields THEN completed[i].t[col] ELSE None]]]]

IsCompleted(m) == m.t["exit_time"] # None

metrics_to_dataframe(metrics_list) ==
    LET completed == SelectSeq(metrics_list, IsCompleted)
    IN  IF metrics_list = <<>> \/ completed = <<>> THEN EmptyFrame
        ELSE LET d0 == DataFrame(completed)
                 d1 == _safe_diff(d0, "total_time", "exit_time", "arrival_time")
                 d2 == _safe_diff(d1, "yard_dwell", "yard_exit_time", "yard_entry_time")
                 d3 == _safe_diff(d2, "dwell_terminal", "exit_time", "yard_entry_time")
                 d4 == _safe_diff(d3, "scan_wait", "scan_start", "scan_queue_enter")
                 d5 == _safe_diff(d4, "yard_to_scan_wait", "yard_to_scan_start",
                                  "yard_to_scan_queue_enter")
                 d6 == _safe_diff(d5, "yard_to_truck_wait", "yard_to_truck_start",
                                  "yard_to_truck_queue_enter")
                 d7 == _safe_diff(d6, "ready_to_pickup_wait", "pickup_time", "ready_time")
                 d8 == _safe_diff(d7, "loading_wait", "loading_start", "loading_queue_enter")
                 d9 == _safe_diff(d8, "gate_wait", "gate_start", "gate_queue_enter")
                 d10 == _safe_diff(d9, "pre_pickup_wait", "pickup_request_time",
                                   "yard_entry_time")
             IN  ScaledColumns(YardEquipmentWait(d10))

\* env.run(until) returns once no event before run_until is left; the table
\* is then derived from the metrics list and returned.
run_simulation_return ==
    /\ phase = "running"
    /\ ~Running
    /\ phase' = "done"
    /\ now' = RunUntil(cfg)
    /\ df' = metrics_to_dataframe(metrics)
    /\ UNCHANGED <<cfg, queue, res, yard, store, pc, loc, ts, tm, metrics, stats, ov, tas, ag, rt, ves>>

-----------------------------------------------------------------------------
(* The specification of one run_simulation call. *)

\* The rate vector is one entry short.
ShortVector ==
    [DemoBase EXCEPT !.hourly_truck_teu_rate = [h \in 1 .. 23 |-> 120]]

\* No containers arrive and no TEU are booked in the first hour; the run
\* lasts into the second.
QuietHour ==
    [DemoBase EXCEPT !.sim_time_mins = 62, !.max_dwell_mins = 1, !.post_process_buffer_mins = 1,
                     !.p_import = 0, !.p_transship = 0, !.p_export = 0,
                     !.hourly_truck_teu_rate = [h \in 1 .. 24 |-> IF h = 1 THEN 0 ELSE 120]]

\* Imports reach the ready pool while trucks are still at the gate.
FastYard ==
    [DemoBase EXCEPT !.p_import = 100, !.p_transship = 0, !.p_export = 0,
                     !.offset_after_discharge_mins = 0,
                     !.import_dwell_bands = << Band(0, 1, 100) >>,
                     !.yard_move_min = 0, !.yard_move_mode = 0, !.yard_move_max = 0,
                     !.num_scanners = 2,
                     !.gate_in_time_min = 1, !.gate_in_time_mode = 3, !.gate_in_time_max = 5]

\* Trucks queue at the gate and wait on the empty ready pool while the first
\* import is still being scanned.
PoolRace ==
    [DemoBase EXCEPT !.sim_time_mins = 4, !.max_dwell_mins = 1, !.post_process_buffer_mins = 1,
                     !.p_import = 100, !.p_transship = 0, !.p_export = 0,
                     !.offset_after_discharge_mins = 0,
                     !.import_dwell_bands = << Band(0, 0, 100) >>]

\* Yard moves and gate-in take two minutes: a container waits for yard
\* equipment while an export enters the yard.
YardWait ==
    [DemoBase EXCEPT !.offset_after_discharge_mins = 0,
                     !.import_dwell_bands = << Band(0, 0, 100) >>,
                     !.yard_move_min = 2, !.yard_move_mode = 2, !.yard_move_max = 2,
                     !.gate_in_time_min = 2, !.gate_in_time_mode = 2, !.gate_in_time_max = 2]

\* Trucks that carry one TEU, with 40ft imports in the mix.
SmallTruck ==
    [DemoBase EXCEPT !.truck_capacity_teu = 1, !.max_dwell_mins = 3,
                     !.post_process_buffer_mins = 1,
                     !.p_import = 100, !.p_transship = 0, !.p_export = 0,
                     !.offset_after_discharge_mins = 0]

\* Two TEU are booked in the first hour and none in any other; the run
\* lasts into the second hour.
SlowHour ==
    [QuietHour EXCEPT !.hourly_truck_teu_rate = [h \in 1 .. 24 |-> IF h = 1 THEN 2 ELSE 0]]

\* As FastYard with a scan of two minutes: two imports leave the scanners in
\* the minute a truck leaves the gate-in lane it entered a minute before.
PairRace == [FastYard EXCEPT !.scan_time_mins = 2]

Configs == {DemoBase, ShortVector, QuietHour, FastYard, PoolRace, YardWait, SmallTruck, PairRace,
            SlowHour}

OvIdle == [phase |-> "idle"]
TasIdle == [phase |-> "idle"]
AgIdle == [phase |-> "idle"]
RtIdle == [phase |-> "idle"]
VesIdle == [phase |-> "idle"]

Init ==
    /\ SimIdle
    /\ cfg \in Configs
    /\ ov = OvIdle
    /\ tas = TasIdle
    /\ ag = AgIdle /\ rt = RtIdle /\ ves = VesIdle

Next ==
    \/ run_simulation_setup
    \/ arrival_generator_start
    \/ arrival_generator_wake
    \/ export_arrival_generator_start
    \/ export_arrival_generator_wake
    \/ truck_arrival_generator_start
    \/ truck_arrival_generator_skip
    \/ truck_arrival_generator_wake
    \/ release_processed
    \/ run_simulation_raises
    \/ run_simulation_return
    \/ \E c \in ShipProcs :
          \/ container_process_start(c)
          \/ container_process_crane_granted(c)
          \/ container_process_crane_done(c)
          \/ container_process_yard_entered(c)
          \/ container_process_dwell_done(c)
          \/ container_process_scan_move_granted(c)
          \/ container_process_scan_move_done(c)
          \/ container_process_scan_granted(c)
          \/ container_process_scan_done(c)
          \/ container_process_ready(c)
    \/ \E c \in Containers :
          \/ container_process_truck_move_granted(c)
          \/ container_process_truck_move_done(c)
          \/ container_process_yard_left(c)
          \/ container_process_load_granted(c)
          \/ container_process_load_done(c)
    \/ \E c \in ExportProcs :
          \/ export_container_process_start(c)
          \/ export_container_process_gate_in_granted(c)
          \/ export_container_process_gate_in_done(c)
          \/ export_container_process_yard_entered(c)
          \/ export_container_process_dwell_done(c)
    \/ \E sp \in SelectProcs :
          \/ select_containers_for_truck_start(sp)
          \/ select_containers_for_truck_first(sp)
          \/ select_containers_for_truck_second(sp)
          \/ select_containers_for_truck_single(sp)
          \/ select_containers_for_truck_pair_first(sp)
          \/ select_containers_for_truck_pair_second(sp)
    \/ \E k \in TruckProcs :
          \/ truck_process_start(k)
          \/ truck_process_gate_in_granted(k)
          \/ truck_process_gate_in_done(k)
          \/ truck_process_picked(k)
          \/ truck_process_move_granted(k)
          \/ truck_process_move_done(k)
          \/ truck_process_yard_left(k)
          \/ truck_process_load_granted(k)
          \/ truck_process_load_done(k)
          \/ truck_process_gate_out_granted(k)
          \/ truck_process_gate_out_done(k)

Spec == Init /\ [][Next]_vars

-----------------------------------------------------------------------------
(* Properties of one run_simulation call. *)

\* C1: in every reachable state of a run the holders of each unit resource
\* number at most its configured capacity, and the yard level is between 0
\* and yard_capacity.
C1_CapacityRespected ==
    phase # "idle" =>
        /\ \A r \in UnitResources : Cardinality(res[r].users) <= CapacityOf(cfg, r)
        /\ 0 <= yard.level /\ yard.level <= cfg.yard_capacity

\* A full resource with a waiting request, and a full yard with a waiting put.
C1_Witness ==
    /\ phase = "running"
    /\ \E r \in UnitResources :
          Cardinality(res[r].users) = CapacityOf(cfg, r) /\ res[r].queue # <<>>
    /\ yard.putq # <<>>
    /\ yard.level + Head(yard.putq).n > cfg.yard_capacity

\* Container c has completed yard.put.
EnteredYard(c) == ts[c]["yard_entry_time"] # None

\* Process p waits for an event that is scheduled or can still be triggered.
Pending(p) ==
    \/ \E i \in 1 .. Len(queue) : queue[i].p = p
    \/ \E r \in UnitResources : \E i \in 1 .. Len(res[r].queue) : res[r].queue[i] = p
    \/ \E i \in 1 .. Len(yard.putq) : yard.putq[i].p = p
    \/ \E i \in 1 .. Len(yard.getq) : yard.getq[i].p = p
    \/ \E i \in 1 .. Len(store.getq) : store.getq[i].p = p

\* Container c is in a stage of its own process: dwelling, queued or in service.
InStage(c) == pc[c] \notin {"none", "new", "ready", "done"} /\ Pending(c)

InReadyPool(c) == \E i \in 1 .. Len(store.items) : store.items[i].c = c

\* Container c was claimed for a truck that has not finished.
HeldByTruck(c) ==
    \E k \in TruckProcs :
        /\ pc[k] # "done"
        /\ \/ \E i \in 1 .. Len(loc[k].items) : loc[k].items[i].c = c
           \/ \E i \in 1 .. Len(loc[Sel(k)].items) : loc[Sel(k)].items[i].c = c
           \/ \E i \in 1 .. Len(queue) :
                 queue[i].kind = "sget" /\ queue[i].p = Sel(k) /\ queue[i].item.c = c

\* The metrics list holds a record of c with an exit_time.
InMetrics(c) ==
    \E i \in 1 .. Len(metrics) :
        metrics[i].container_id = c /\ metrics[i].t["exit_time"] # None

\* C5: a container that has completed yard.put is, at every moment of the
\* run, in a stage of its process, in the ready pool, held by a truck that
\* has not finished, or in the metrics list with an exit_time.
C5_NoContainerVanishes ==
    \A c \in Containers :
        EnteredYard(c) => InStage(c) \/ InReadyPool(c) \/ HeldByTruck(c) \/ InMetrics(c)

\* A truck that carried two containers has finished and both are in the metrics.
C5_Witness ==
    \E k \in TruckProcs :
        /\ pc[k] = "done"
        /\ Len(loc[k].items) = 2
        /\ \A i \in 1 .. 2 : EnteredYard(loc[k].items[i].c) /\ InMetrics(loc[k].items[i].c)

\* C6: every derived wait or dwell value of the output table, when present,
\* is at least 0.
C6_DerivedColumnsNonNegative ==
    \A i \in 1 .. Len(df.rows) :
        \A col \in DerivedCols : df.rows[i].v[col] # None => df.rows[i].v[col] >= 0

\* The table of a finished run has a row with a positive wait of each kind a
\* truck-carried import has.
C6_Witness ==
    /\ phase = "done"
    /\ \E i \in 1 .. Len(df.rows) :
          /\ df.rows[i].flow_type = "IMPORT"
          /\ df.rows[i].v["total_time"] > 0
          /\ df.rows[i].v["ready_to_pickup_wait"] > 0
          /\ df.rows[i].v["pre_pickup_wait"] # None

\* C7: every row of the output table has a total_time that is at least its
\* yard_dwell, with arrival_time <= yard_entry_time <= yard_exit_time <= exit_time.
C7_TotalTimeCoversYardDwell ==
    \A i \in 1 .. Len(df.rows) :
        LET v == df.rows[i].v
        IN  /\ "total_time" \in df.columns /\ v["total_time"] # None
            /\ v["yard_dwell"] # None
            /\ v["total_time"] >= v["yard_dwell"]
            /\ v["arrival_time"] # None /\ v["yard_entry_time"] # None
            /\ v["yard_exit_time"] # None /\ v["exit_time"] # None
            /\ v["arrival_time"] <= v["yard_entry_time"]
            /\ v["yard_entry_time"] <= v["yard_exit_time"]
            /\ v["yard_exit_time"] <= v["exit_time"]

\* The table of a finished run has an import, a transship and an export row.
C7_Witness ==
    /\ phase = "done"
    /\ \A f \in {"IMPORT", "TRANSSHIP", "EXPORT"} :
          \E i \in 1 .. Len(df.rows) :
              df.rows[i].flow_type = f /\ df.rows[i].v["total_time"] > df.rows[i].v["yard_dwell"]

\* The time process p was started at, None if it was not.
StartedAt(p) ==
    IF pc[p] = "none" THEN None
    ELSE IF pc[p] = "new"
    THEN queue[CHOOSE i \in 1 .. Len(queue) : queue[i].p = p /\ queue[i].kind = "init"].t
    ELSE IF p \in TruckProcs THEN tm[p]["gate_in_queue_enter"]
    ELSE ts[p]["arrival_time"]

\* C8: the arrival generators start no entity at a time >= sim_time_mins,
\* and the events of the entities in flight are processed up to the
\* run-until time: the run ends with none of them left before it.
C8_NoArrivalsPastHorizon ==
    /\ \A p \in Containers \cup TruckProcs :
          pc[p] # "none" => 0 <= StartedAt(p) /\ StartedAt(p) < cfg.sim_time_mins
    /\ phase = "running" => now < RunUntil(cfg)
    /\ phase = "done" =>
          /\ now = RunUntil(cfg)
          /\ \A i \in 1 .. Len(queue) : queue[i].t >= RunUntil(cfg)

\* A run has finished in which a container left at or after the horizon.
C8_Witness ==
    /\ phase = "done"
    /\ \E c \in Containers :
          ts[c]["exit_time"] # None /\ ts[c]["exit_time"] >= cfg.sim_time_mins
    /\ \E g \in Generators : pc[g] = "done"

\* C9 as stated: when run_simulation raises for a rate vector that does not
\* have 24 entries, no sample was drawn, no timeout registered and no
\* entity created.
C9_FailsBeforeAnyEvent ==
    (phase = "error" /\ ~RateVectorValid(cfg.hourly_truck_teu_rate)) =>
        stats.draws = 0 /\ stats.timeouts = 0 /\ stats.entities = 0

\* The trucks whose selection was handed container c by the ready pool.
Claimants(c) ==
    {k \in TruckProcs :
        \/ \E i \in 1 .. Len(loc[Sel(k)].items) : loc[Sel(k)].items[i].c = c
        \/ \E i \in 1 .. Len(queue) :
              queue[i].kind = "sget" /\ queue[i].p = Sel(k) /\ queue[i].item.c = c}

\* The number of records the metrics list holds for container c.
Emitted(c) == Cardinality({i \in 1 .. Len(metrics) : metrics[i].container_id = c})

\* Container c is with at most one truck, is not in the pool once a truck
\* has it, and has at most one metrics record.
SingleOwner(c) ==
    /\ Cardinality(Claimants(c)) <= 1
    /\ InReadyPool(c) => Claimants(c) = {}
    /\ Emitted(c) <= 1

\* A step that changes the timestamp dict of a container that was put into
\* the pool is the last step of the truck that claimed it.
WrittenByOwner(c) ==
    (ts[c]["ready_time"] # None /\ ts'[c] # ts[c]) =>
        \E k \in Claimants(c) : pc[k] = "gate_out_service" /\ pc'[k] = "done"

\* C11: a container put into the ready pool is claimed by at most one truck
\* and leaves the pool at the claim, its timestamp dict is afterwards written
\* by that truck only, and its metrics record is emitted at most once.
C11_OwnershipTransfersAtDequeue ==
    /\ [](\A c \in Containers : SingleOwner(c))
    /\ [][\A c \in Containers : WrittenByOwner(c)]_vars

\* Two trucks have each claimed a container of the pool, and one of them has
\* finished and emitted the record of its container.
C11_Witness ==
    \E k1, k2 \in TruckProcs :
        /\ k1 # k2
        /\ loc[Sel(k1)].items # <<>> /\ loc[Sel(k2)].items # <<>>
        /\ pc[k1] = "done"
        /\ \A i \in 1 .. Len(loc[k1].items) :
              /\ Emitted(loc[k1].items[i].c) = 1
              /\ ts[loc[k1].items[i].c]["ready_time"] # None
              /\ ts[loc[k1].items[i].c]["gate_out_exit_time"] # None

\* The yield point the policy of C12 sends a truck of capacity >= 2 to, for
\* the items the pool holds at the claim step.
PolicyBranch(items) ==
    LET ones == {i \in 1 .. Len(items) : items[i].teu = 1}
        twos == {i \in 1 .. Len(items) : items[i].teu = 2}
    IN  IF twos # {} THEN "single_teu2"
        ELSE IF Cardinality(ones) >= 2 THEN "pair_first"
        ELSE IF Cardinality(ones) = 1 THEN "single_teu1"
        ELSE "single_any"

\* Selection sp waits in the store's get queue.
WaitsOnPool(sp) == \E i \in 1 .. Len(store.getq) : store.getq[i].p = sp

\* The step at which selection sp of a truck of capacity >= 2 looks at the pool.
ClaimStep(sp) == At(sp, "init", "new") /\ cfg.truck_capacity_teu >= 2

\* At the claim step the get the policy names is made; on an empty pool the
\* selection is left waiting.
ClaimFollowsPolicy(sp) ==
    ClaimStep(sp) =>
        IF store.items = <<>> THEN pc'[sp] = "first" /\ WaitsOnPool(sp)'
        ELSE pc'[sp] = PolicyBranch(store.items)

\* What a selection returns, by the gets it made.
ReturnFollowsPolicy(sp) ==
    (pc[sp] # "done" /\ pc'[sp] = "done") =>
        LET got == loc'[sp].items
        IN  /\ pc[sp] = "single_teu2" => Len(got) = 1 /\ got[1].teu = 2
            /\ pc[sp] = "pair_second" => Len(got) = 2 /\ got[1].teu = 1 /\ got[2].teu = 1
            /\ pc[sp] = "single_teu1" => Len(got) = 1 /\ got[1].teu = 1
            /\ pc[sp] = "single_any" => Len(got) = 1
            /\ pc[sp] \in {"single_teu2", "pair_second", "single_teu1", "single_any",
                            "first", "second"}

\* No get of a selection that found the pool non-empty is left waiting: the
\* containers it saw are the containers it claims.
ClaimsWhatItSaw(sp) ==
    /\ (ClaimStep(sp) /\ store.items # <<>>) => ~WaitsOnPool(sp)'
    /\ (Running /\ E.p = sp /\ pc[sp] = "pair_first") => ~WaitsOnPool(sp)'

ImportOnlyFields ==
    { "yard_to_scan_queue_enter", "yard_to_scan_start", "occupancy_at_yard_to_scan",
      "yard_to_scan_end", "scan_queue_enter", "scan_start", "scan_end", "ready_time",
      "gate_in_queue_enter", "gate_in_start", "gate_in_end", "pickup_time",
      "gate_queue_enter", "gate_start", "gate_out_exit_time" }

IsTransship(c) == pc[c] # "none" /\ loc[c].flow = "TRANSSHIP"

\* The dwell of container c, once it has ended.
DwellOf(c) == ts[c]["pickup_request_time"] - ts[c]["yard_entry_time"]

\* C13 as stated: a TRANSSHIP container that has left was moved to the
\* scanner, scanned, put into the ready pool and picked up by a truck, after
\* a dwell drawn from the transship table with no offset.
C13_TransshipTakesImportPath ==
    \A c \in ShipProcs :
        (IsTransship(c) /\ ts[c]["exit_time"] # None) =>
            /\ DwellOf(c) \in sample_transship_dwell_minutes(cfg)
            /\ ts[c]["yard_to_scan_start"] # None /\ ts[c]["scan_start"] # None
            /\ ts[c]["ready_time"] # None /\ ts[c]["pickup_time"] # None

\* C13: a TRANSSHIP container passes crane, yard entry and a dwell drawn from
\* the transship table with no offset, and then takes the path of an export:
\* yard-equipment move to the loader, yard.get of its own TEU, loader service
\* and its own record with exit_time = loading_end; it is never moved to the
\* scanner, scanned, put into the ready pool or claimed by a truck.
C13_TransshipLoadsDirectly ==
    \A c \in ShipProcs :
        IsTransship(c) =>
            /\ \A f \in ImportOnlyFields : ts[c][f] = None
            /\ ~InReadyPool(c) /\ Claimants(c) = {}
            /\ pc[c] \notin {"ye_scan_req", "ye_scan_move", "scan_req", "scan_service",
                              "store_put", "ready"}
            /\ ts[c]["pickup_request_time"] # None =>
                   DwellOf(c) \in sample_transship_dwell_minutes(cfg)
            /\ ts[c]["loading_queue_enter"] # None =>
                   /\ ts[c]["yard_to_truck_start"] # None
                   /\ ts[c]["yard_to_truck_start"] <= ts[c]["yard_to_truck_end"]
                   /\ ts[c]["yard_to_truck_end"] <= ts[c]["loading_queue_enter"]
            /\ ts[c]["exit_time"] # None =>
                   /\ ts[c]["exit_time"] = ts[c]["loading_end"]
                   /\ ts[c]["loading_queue_enter"] <= ts[c]["loading_start"]
                   /\ ts[c]["loading_start"] <= ts[c]["loading_end"]
                   /\ Emitted(c) = 1

\* A TRANSSHIP container has left through the loader in a run in which an
\* IMPORT container, after a dwell with the offset, reached the ready pool.
C13_Witness ==
    \E c, d \in ShipProcs :
        /\ IsTransship(c) /\ ts[c]["exit_time"] # None /\ pc[c] = "done"
        /\ loc[d].flow = "IMPORT" /\ ts[d]["ready_time"] # None
        /\ DwellOf(d) # DwellOf(c)

\* The processes that move through the yard, and the step at which the
\* yard-equipment request of p is granted.
YardMovers == Containers \cup TruckProcs

MoveGranted(p) ==
    \E l \in {"ye_scan_req", "ye_truck_req", "ye_req"} : At(p, "req", l)

\* The occupancy snapshot recorded for the move p has started.
SnapshotOf(p, t, m) ==
    IF p \in TruckProcs THEN m[p]["occupancy_at_yard_to_truck"]
    ELSE IF t[p]["yard_to_scan_start"] # None THEN t[p]["occupancy_at_yard_to_scan"]
    ELSE t[p]["occupancy_at_yard_to_truck"]

\* The durations of the timeouts process p waits for in queue q, from time t.
MoveTimes(q, p, t) ==
    {q[i].t - t : i \in {n \in 1 .. Len(q) : q[n].p = p /\ q[n].kind = "timeout"}}

\* The base times of a yard move, without a penalty.
BaseMoveTimes ==
    {Max(0, b) : b \in Triangular(cfg.yard_move_min, cfg.yard_move_mode, cfg.yard_move_max)}

\* C14: when the yard-equipment request of a yard move is granted, the
\* occupancy snapshot recorded for the move is the yard level of that
\* instant, the move time is the one computed from that snapshot, and it
\* carries no penalty when the snapshot is at most yard_occ_threshold.
C14_OccupancyReadAtGrant ==
    [][\A p \in YardMovers :
          MoveGranted(p) =>
              LET snap == SnapshotOf(p, ts', tm')
                  times == MoveTimes(queue', p, E.t)
              IN  /\ snap = yard.level
                  /\ times # {}
                  /\ times \subseteq sample_yard_move_time(cfg, snap)
                  /\ 100 * snap <= cfg.yard_occ_threshold * cfg.yard_capacity =>
                         times \subseteq BaseMoveTimes]_vars

\* The times at which container p asked for yard equipment and was granted it.
MoveQueuedAt(p) ==
    IF ts[p]["yard_to_scan_queue_enter"] # None THEN ts[p]["yard_to_scan_queue_enter"]
    ELSE ts[p]["yard_to_truck_queue_enter"]

MoveStartedAt(p) ==
    IF ts[p]["yard_to_scan_queue_enter"] # None THEN ts[p]["yard_to_scan_start"]
    ELSE ts[p]["yard_to_truck_start"]

\* Container p waited for yard equipment; container q entered the yard after
\* p asked and before p was granted, and nothing has left the yard: the
\* request was queued at a level below the one of the grant.  The snapshot is
\* above the threshold and the move takes longer than any base time.
C14_Witness ==
    \E p \in Containers : \E q \in Containers \ {p} :
        /\ pc[p] \in {"ye_truck_move", "ye_scan_move"}
        /\ MoveQueuedAt(p) # None /\ MoveStartedAt(p) # None /\ ts[q]["yard_entry_time"] # None
        /\ MoveQueuedAt(p) < ts[q]["yard_entry_time"]
        /\ ts[q]["yard_entry_time"] <= MoveStartedAt(p)
        /\ \A r \in Containers : ts[r]["yard_to_truck_end"] = None
        /\ \A k \in TruckProcs : tm[k]["yard_to_truck_end"] = None
        /\ SnapshotOf(p, ts, tm) = yard.level
        /\ 100 * SnapshotOf(p, ts, tm) > cfg.yard_occ_threshold * cfg.yard_capacity
        /\ 100 * (SnapshotOf(p, ts, tm) - loc[q].teu)
              <= cfg.yard_occ_threshold * cfg.yard_capacity
        /\ \A d \in MoveTimes(queue, p, MoveStartedAt(p)) : \A b \in BaseMoveTimes : d > b

\* The keys of a container's dict that truck_process writes.
TruckWrittenFields ==
    { "gate_in_queue_enter", "gate_in_start", "gate_in_end", "pickup_time",
      "yard_to_truck_queue_enter", "yard_to_truck_start", "yard_to_truck_end",
      "occupancy_at_yard_to_truck", "loading_queue_enter", "loading_start",
      "loading_end", "gate_queue_enter", "gate_start", "gate_out_exit_time", "exit_time" }

\* The position in the metrics list of the record of container c (0: none).
RecordIndex(c) ==
    IF Emitted(c) = 0 THEN 0
    ELSE CHOOSE i \in 1 .. Len(metrics) : metrics[i].container_id = c

\* The record at position i was written for a container that truck k
\* claimed, after k's gate-out, with k's times.
EmittedByTruck(i, k) ==
    /\ pc[k] = "done"
    /\ \E j \in 1 .. Len(loc[k].items) : loc[k].items[j].c = metrics[i].container_id
    /\ tm[k]["gate_out_end"] # None
    /\ metrics[i].t["exit_time"] = tm[k]["gate_out_end"]
    /\ metrics[i].t["pickup_time"] = tm[k]["pickup_end"]
    /\ metrics[i].t["ready_time"] # None
    /\ metrics[i].t["pickup_time"] >= metrics[i].t["ready_time"]

\* The records of the containers of a finished truck carry the same truck
\* timestamps and follow each other in the order of the claims.
CarriedTogether(k) ==
    \A j \in 1 .. Len(loc[k].items) - 1 :
        LET a == RecordIndex(loc[k].items[j].c)
            b == RecordIndex(loc[k].items[j + 1].c)
        IN  /\ a > 0 /\ b = a + 1
            /\ \A f \in TruckWrittenFields : metrics[a].t[f] = metrics[b].t[f]

\* A step that adds the record of an IMPORT container is the end of the
\* gate-out of a truck that claimed it.
ImportEmittedAtGateOut(c) ==
    (loc[c].flow = "IMPORT" /\ Emitted(c) = 0 /\ Len(metrics') > Len(metrics)
        /\ \E i \in 1 .. Len(metrics') : metrics'[i].container_id = c) =>
        \E k \in Claimants(c) : pc[k] = "gate_out_service" /\ pc'[k] = "done"

\* C25: the record of an IMPORT container is emitted by the truck that
\* claimed it, at the end of that truck's gate-out: exit_time is the truck's
\* gate_out_end and pickup_time is not before ready_time; two containers of
\* one truck get the same truck timestamps and are emitted in claim order.
C25_ImportEmittedByClaimingTruck ==
    /\ [](\A i \in 1 .. Len(metrics) :
            metrics[i].flow_type = "IMPORT" => \E k \in TruckProcs : EmittedByTruck(i, k))
    /\ [](\A k \in TruckProcs : pc[k] = "done" => CarriedTogether(k))
    /\ [][\A c \in Containers : ImportEmittedAtGateOut(c)]_vars

\* A truck that claimed two containers has left the gate and both records
\* are in the metrics list.
C25_Witness ==
    \E k \in TruckProcs :
        /\ pc[k] = "done" /\ Len(loc[k].items) = 2
        /\ \A j \in 1 .. 2 : Emitted(loc[k].items[j].c) = 1
        /\ tm[k]["gate_out_end"] > tm[k]["pickup_end"]

\* The yields of container_process for an IMPORT container, in code order.
ImportStages ==
    << "new", "crane_req", "crane_service", "yard_put", "dwell", "ye_scan_req",
       "ye_scan_move", "scan_req", "scan_service", "store_put", "ready" >>

\* The timestamps of an IMPORT container up to the ready pool, in code order.
ImportStamps ==
    << "arrival_time", "crane_start", "crane_end", "yard_entry_time",
       "pickup_request_time", "yard_to_scan_start", "yard_to_scan_end", "scan_start",
       "scan_end", "ready_time" >>

StageIndex(label) ==
    IF \E i \in 1 .. Len(ImportStages) : ImportStages[i] = label
    THEN CHOOSE i \in 1 .. Len(ImportStages) : ImportStages[i] = label
    ELSE 0

IsImport(c) == c \in ShipProcs /\ pc[c] # "none" /\ loc[c].flow = "IMPORT"

\* The timestamps written so far are a prefix of ImportStamps and do not decrease.
StampsInOrder(c) ==
    /\ \A i \in 1 .. Len(ImportStamps) - 1 :
          ts[c][ImportStamps[i + 1]] # None =>
              /\ ts[c][ImportStamps[i]] # None
              /\ ts[c][ImportStamps[i]] <= ts[c][ImportStamps[i + 1]]
    /\ ts[c]["scan_end"] = ts[c]["ready_time"]

\* A resource is held during its service only, and the yard is entered
\* after the crane and before the dwell.
HeldInServiceOnly(c) ==
    /\ c \in res["cranes"].users => pc[c] \in {"crane_req", "crane_service"}
    /\ c \in res["yard_equipment"].users => pc[c] \in {"ye_scan_req", "ye_scan_move"}
    /\ c \in res["scanners"].users => pc[c] \in {"scan_req", "scan_service"}
    /\ StageIndex(pc[c]) >= StageIndex("dwell") <=> ts[c]["yard_entry_time"] # None
    /\ StageIndex(pc[c]) >= StageIndex("store_put") <=> ts[c]["ready_time"] # None

TimesInPool(c) == Cardinality({i \in 1 .. Len(store.items) : store.items[i].c = c})

\* The container is in the pool or with a truck from its put on, never
\* before, and never twice.
PutOnce(c) ==
    /\ TimesInPool(c) + Cardinality(Claimants(c)) =
           (IF StageIndex(pc[c]) >= StageIndex("store_put") THEN 1 ELSE 0)

\* A step of an IMPORT container's process takes it to the next stage.
NextStage(c) ==
    (IsImport(c) /\ pc'[c] # pc[c]) =>
        /\ StageIndex(pc[c]) > 0
        /\ StageIndex(pc'[c]) = StageIndex(pc[c]) + 1

\* C26: an IMPORT container goes through crane service, yard.put, dwell, the
\* yard-equipment move to the scanner, the scan and the put into the ready
\* pool in this order, releasing each resource after its service; its
\* timestamps from arrival_time to scan_end = ready_time do not decrease,
\* and it is put into the ready pool once.
C26_ImportStagesInOrder ==
    /\ [](\A c \in ShipProcs :
            IsImport(c) => /\ StageIndex(pc[c]) > 0
                           /\ StampsInOrder(c) /\ HeldInServiceOnly(c) /\ PutOnce(c))
    /\ [][\A c \in ShipProcs : NextStage(c)]_vars

\* An IMPORT container has gone through every stage, has waited on the way
\* and lies in the ready pool.
C26_Witness ==
    \E c \in ShipProcs :
        /\ IsImport(c) /\ pc[c] = "ready" /\ InReadyPool(c)
        /\ ts[c]["crane_end"] > ts[c]["crane_start"]
        /\ ts[c]["pickup_request_time"] > ts[c]["yard_entry_time"]
        /\ ts[c]["yard_to_scan_start"] > ts[c]["pickup_request_time"]
        /\ ts[c]["ready_time"] > ts[c]["scan_start"]

\* The yields of export_container_process, in code order.
ExportStages ==
    << "new", "gate_in_req", "gate_in_service", "yard_put", "dwell", "ye_truck_req",
       "ye_truck_move", "yard_get", "load_req", "load_service", "done" >>

ExportStageIndex(label) ==
    IF \E i \in 1 .. Len(ExportStages) : ExportStages[i] = label
    THEN CHOOSE i \in 1 .. Len(ExportStages) : ExportStages[i] = label
    ELSE 0

IsExport(c) == c \in ExportProcs /\ pc[c] # "none"

WaitsForYardGet(c) == \E i \in 1 .. Len(yard.getq) : yard.getq[i].p = c

AtLoaders(c) ==
    \/ c \in res["loaders"].users
    \/ \E i \in 1 .. Len(res["loaders"].queue) : res["loaders"].queue[i] = c

\* The container is never in the ready pool nor with a truck, and its record
\* is its own: emitted when loading ends, with exit_time = loading_end.
SelfContained(c) ==
    /\ ExportStageIndex(pc[c]) > 0
    /\ ~InReadyPool(c) /\ Claimants(c) = {}
    /\ ts[c]["ready_time"] = None /\ ts[c]["pickup_time"] = None
    /\ Emitted(c) = (IF pc[c] = "done" THEN 1 ELSE 0)
    /\ pc[c] = "done" =>
          LET t == metrics[RecordIndex(c)].t
          IN  /\ t["loading_end"] # None /\ t["exit_time"] = t["loading_end"]
              /\ t["gate_in_end"] <= t["yard_entry_time"]
              /\ t["yard_entry_time"] <= t["yard_to_truck_start"]
              /\ t["yard_to_truck_end"] <= t["loading_queue_enter"]
              /\ t["loading_queue_enter"] <= t["loading_start"]
    /\ AtLoaders(c) => pc[c] \in {"load_req", "load_service"} /\ ~WaitsForYardGet(c)

\* A step of the export process takes it to the next stage; its yard.get
\* lowers the level by its TEU unless it has to wait, and it queues for a
\* loader at the step its yard.get event is processed.
ExportNextStage(c) ==
    (IsExport(c) /\ pc'[c] # pc[c]) =>
        /\ ExportStageIndex(pc'[c]) = ExportStageIndex(pc[c]) + 1
        /\ pc'[c] = "yard_get" =>
              \/ \E i \in 1 .. Len(yard'.getq) : yard'.getq[i].p = c
              \/ yard'.level <= yard.level - loc[c].teu
        /\ pc'[c] = "load_req" => E.kind = "yget" /\ E.p = c /\ ~WaitsForYardGet(c)

\* C27: an EXPORT container goes through gate-in, yard.put, dwell, the
\* yard-equipment move, yard.get of its own TEU and the loader, and emits its
\* own record with exit_time = loading_end; it is never in the ready pool
\* nor claimed by a truck, and its TEU have left the yard level before it
\* queues for a loader.
C27_ExportSelfContained ==
    /\ [](\A c \in ExportProcs : IsExport(c) => SelfContained(c))
    /\ [][\A c \in ExportProcs : ExportNextStage(c)]_vars

\* An export container has emitted its record while a truck has claimed an
\* import container.
C27_Witness ==
    \E c \in ExportProcs :
        /\ pc[c] = "done" /\ Emitted(c) = 1
        /\ ts[c]["loading_end"] > ts[c]["yard_entry_time"]
        /\ \E k \in TruckProcs : loc[Sel(k)].items # <<>>

\* C24 as stated: the containers a truck claims are one or two, and their
\* TEU together are no more than truck_capacity_teu.
C24_ClaimWithinTruckCapacity ==
    \A sp \in SelectProcs :
        /\ SumTeu(loc[sp].items) <= cfg.truck_capacity_teu
        /\ pc[sp] = "done" => Len(loc[sp].items) \in {1, 2}

\* The part of C24 that holds: a truck claims one or two containers of at
\* most two TEU together, within its capacity when that is two or more.
ClaimWithinTwoTeu ==
    \A sp \in SelectProcs :
        /\ SumTeu(loc[sp].items) <= Max(2, cfg.truck_capacity_teu)
        /\ cfg.truck_capacity_teu < 2 => Len(loc[sp].items) <= 1
        /\ pc[sp] = "done" => Len(loc[sp].items) \in {1, 2}

\* The unit resources process p holds a slot of.
HeldBy(p) == {r \in UnitResources : p \in res[r].users}

\* Process p waits in the queue of a unit resource.
WaitsForResource(p) ==
    \E r \in UnitResources : \E i \in 1 .. Len(res[r].queue) : res[r].queue[i] = p

\* Process p waits for yard space, or for TEU to take out of the yard.
WaitsForYard(p) ==
    \/ \E i \in 1 .. Len(yard.putq) : yard.putq[i].p = p
    \/ \E i \in 1 .. Len(yard.getq) : yard.getq[i].p = p

\* Process p, or the selection it started, waits for a ready container.
WaitsForContainer(p) ==
    \E i \in 1 .. Len(store.getq) :
        store.getq[i].p = p \/ (p \in TruckProcs /\ store.getq[i].p = Sel(p))

\* The holder p of a slot has its grant or the end of its service ahead.
ServiceAhead(p) ==
    \E i \in 1 .. Len(queue) : queue[i].p = p /\ queue[i].kind \in {"req", "timeout"}

\* C35: a process that holds a slot of a unit resource holds one slot only,
\* waits for no other resource, for no yard space and for no ready
\* container, and has its grant or the end of its service ahead of it: a
\* full yard keeps no crane and no gate-in lane occupied, and no wait on a
\* unit resource depends on another wait.
C35_NoHoldAndWait ==
    phase = "running" =>
        \A p \in Procs :
            HeldBy(p) # {} =>
                /\ Cardinality(HeldBy(p)) = 1
                /\ ~WaitsForResource(p)
                /\ ~WaitsForYard(p)
                /\ ~WaitsForContainer(p)
                /\ ServiceAhead(p)

\* A container waits for yard space with the crane or the gate-in lane it
\* used given back, while another process holds a slot of a unit resource.
C35_Witness ==
    /\ phase = "running"
    /\ \E i \in 1 .. Len(yard.putq) :
          /\ HeldBy(yard.putq[i].p) = {}
          /\ ts[yard.putq[i].p].crane_end # None \/ ts[yard.putq[i].p].gate_in_end # None
          /\ \E q \in Procs \ {yard.putq[i].p} : HeldBy(q) # {}

\* Process p is in the yard's queue q of puts or of gets.
InYardQueue(q, p) == \E i \in 1 .. Len(q) : q[i].p = p

\* The yard.put of container c has succeeded.
PutCompleted(c) ==
    /\ pc[c] \notin {"none", "new", "crane_req", "crane_service",
                     "gate_in_req", "gate_in_service"}
    /\ ~InYardQueue(yard.putq, c)

\* The yard.get of container c itself has succeeded.
OwnGetCompleted(c) ==
    \/ pc[c] \in {"load_req", "load_service", "done"}
    \/ pc[c] = "yard_get" /\ ~InYardQueue(yard.getq, c)

\* The yard.get of a truck that carries container c has succeeded.
TruckGetCompleted(c) ==
    \E k \in TruckProcs :
        /\ \E i \in 1 .. Len(loc[k].items) : loc[k].items[i].c = c
        /\ \/ pc[k] \in {"load_req", "load_service", "gate_out_req",
                         "gate_out_service", "done"}
           \/ pc[k] = "yard_get" /\ ~InYardQueue(yard.getq, k)

\* The containers in the yard.
InYard == {c \in Containers : PutCompleted(c) /\ ~OwnGetCompleted(c) /\ ~TruckGetCompleted(c)}

RECURSIVE TeuOf(_)
TeuOf(S) ==
    IF S = {} THEN 0
    ELSE LET c == CHOOSE x \in S : TRUE IN loc[c].teu + TeuOf(S \ {c})

\* C36: the yard level is the total TEU of the containers whose yard.put
\* has succeeded and that no yard.get, their own or a truck's, has taken
\* out; no yard.get ever waits.
C36_YardLevelIsContainersInYard ==
    phase \in {"running", "done"} =>
        /\ yard.level = TeuOf(InYard)
        /\ yard.getq = << >>

\* A truck has taken its two TEU out of a yard that still holds a
\* container.
C36_Witness ==
    /\ phase = "running"
    /\ yard.level > 0 /\ InYard # {}
    /\ \E k \in TruckProcs : pc[k] = "load_req" /\ loc[k].teu = 2

\* C37 as stated: a truck that has decided to take two 1-TEU containers is
\* handed both without waiting on the ready pool: no other truck takes the
\* second, and the truck never waits on the pool while it holds a container.
C37_PairClaimedWithoutWaiting ==
    \A sp \in SelectProcs :
        pc[sp] \in {"pair_first", "pair_second", "second"} => ~WaitsOnPool(sp)

\* C39 as stated: truck_arrival_generator starts no truck process at a time
\* whose hour of the day has rate 0.
C39_NoTruckInZeroRateHour ==
    [][\A k \in TruckProcs :
          (phase = "running" /\ pc[k] = "none" /\ pc'[k] # "none") =>
              rate_fn(cfg.hourly_truck_teu_rate, now') > 0]_vars

-----------------------------------------------------------------------------
(* apply_overrides(config, overrides).  A value is [type, v]; a dict is a  *)
(* function from its keys to values; the heap holds the caller's dict      *)
(* ("base") and the dict the call allocates ("copy").                      *)

SCENARIO_KEYS ==
    { "name", "description", "demo", "sim_time_mins", "max_dwell_mins",
      "post_process_buffer_mins", "p_import", "p_export", "p_transship", "pct_40ft",
      "num_cranes", "yard_capacity", "yard_equipment_capacity", "num_scanners",
      "num_loaders", "num_gate_in", "num_gate_out", "crane_moves_per_hour",
      "scan_time_mins", "yard_move_min", "yard_move_mode", "yard_move_max",
      "yard_occ_threshold", "rehandle_alpha", "loading_time_min", "loading_time_mode",
      "loading_time_max", "gate_in_time_min", "gate_in_time_mode", "gate_in_time_max",
      "gate_out_time_min", "gate_out_time_mode", "gate_out_time_max",
      "offset_after_discharge_mins", "import_dwell_bands", "transship_dwell_bands",
      "export_dwell_min", "export_dwell_max", "ship_interarrival_mean_mins",
      "export_interarrival_mean_mins", "hourly_truck_teu_rate", "truck_capacity_teu" }

ALLOWED_OVERRIDE_KEYS == SCENARIO_KEYS

RESOURCE_KEYS ==
    { "num_scanners", "num_loaders", "yard_equipment_capacity", "num_gate_in",
      "num_gate_out", "num_cranes" }

Val(type, v) == [type |-> type, v |-> v]

\* isinstance(value, cls): a bool is also an int.
IsInstance(value, cls) ==
    \/ value.type = cls
    \/ cls = "int" /\ value.type = "bool"

\* _validate_type returns (TRUE) or raises (FALSE).
_validate_type(value, expected) ==
    IF IsInstance(expected, "bool") THEN IsInstance(value, "bool")
    ELSE IF IsInstance(expected, "int") /\ ~IsInstance(expected, "bool")
    THEN IsInstance(value, "int") /\ ~IsInstance(value, "bool")
    ELSE IF IsInstance(expected, "float")
    THEN (IsInstance(value, "int") \/ IsInstance(value, "float")) /\ ~IsInstance(value, "bool")
    ELSE IF IsInstance(expected, "str") THEN IsInstance(value, "str")
    ELSE IF IsInstance(expected, "list") THEN IsInstance(value, "list")
    ELSE TRUE

\* A resource check that lets a capacity of 0 through.
ResourceValueOkZero(value) == IsInstance(value, "int") /\ value.v >= 0

\* The check of one resource value of the merged dict.
ResourceValueOk(value) == IsInstance(value, "int") /\ value.v >= 1

\* A merged dict that is the caller's dict itself.
DictAlias(heap) == [ref |-> "base", heap |-> heap]

\* merged = dict(config): a new dict with the entries of the caller's.
DictCopy(heap) == [ref |-> "copy", heap |-> [heap EXCEPT !.copy = heap.base]]

\* scenario_to_dict of a scenario, on the keys the overrides of this model touch.
ScenarioDict ==
    [ name |-> Val("str", 0), demo |-> Val("bool", 1), p_import |-> Val("float", 60),
      num_cranes |-> Val("int", 1), num_scanners |-> Val("int", 1),
      yard_capacity |-> Val("int", 4), hourly_truck_teu_rate |-> Val("list", 0) ]

\* A config dict that lacks keys of the schema.
PartialDict == [ name |-> Val("str", 0), num_scanners |-> Val("int", 1) ]

EmptyDict == [k \in {} |-> Val("int", 0)]

OvBases == {ScenarioDict, PartialDict, EmptyDict}

OvKeys == {"num_cranes", "yard_capacity", "p_import", "demo", "unknown_key"}

OvValues == {Val("int", 0), Val("int", 2), Val("float", 2), Val("bool", 1), Val("str", 0)}

\* Longest overrides dict of the model.
MaxOverrides == 2

\* The overrides dicts, as the sequence of their items in insertion order.
OvOverrides ==
    UNION {{o \in [1 .. n -> [key : OvKeys, value : OvValues]] :
               \A i, j \in 1 .. n : i # j => o[i].key # o[j].key} : n \in 0 .. MaxOverrides}

OvCalled(base, overrides) ==
    [phase |-> "called", base0 |-> base, heap |-> [base |-> base, copy |-> EmptyDict],
     overrides |-> overrides, i |-> 0, merged |-> "none", outcome |-> "none",
     at |-> "", result |-> "none"]

OvRaise(o, where) == [o EXCEPT !.phase = "finished", !.outcome = "raised", !.at = where]

OvReturn(o, ref) == [o EXCEPT !.phase = "finished", !.outcome = "returned", !.result = ref]

\* apply_overrides up to the loop over the overrides.
apply_overrides_enter ==
    /\ ov.phase = "called"
    /\ ov' = IF DOMAIN ov.heap.base = {} THEN OvRaise(ov, "config")
             ELSE IF ov.overrides = <<>>
             THEN LET d == DictCopy(ov.heap) IN OvReturn([ov EXCEPT !.heap = d.heap], d.ref)
             ELSE IF \E i \in 1 .. Len(ov.overrides) :
                        ov.overrides[i].key \notin ALLOWED_OVERRIDE_KEYS
             THEN OvRaise(ov, "unknown")
             ELSE LET d == DictCopy(ov.heap)
                  IN  [ov EXCEPT !.phase = "loop", !.heap = d.heap, !.merged = d.ref, !.i = 1]
    /\ UNCHANGED <<simVars, tas, ag, rt, ves>>

\* One iteration of the loop over overrides.items().
apply_overrides_item ==
    /\ ov.phase = "loop"
    /\ ov.i <= Len(ov.overrides)
    /\ LET key == ov.overrides[ov.i].key
           value == ov.overrides[ov.i].value
           merged == ov.heap[ov.merged]
       IN  ov' = IF key \notin DOMAIN merged THEN OvRaise(ov, "missing")
                 ELSE IF ~_validate_type(value, merged[key]) THEN OvRaise(ov, "type")
                 ELSE [ov EXCEPT !.heap[ov.merged][key] = value, !.i = @ + 1]
    /\ UNCHANGED <<simVars, tas, ag, rt, ves>>

\* The loop over RESOURCE_KEYS and the return.
apply_overrides_check ==
    /\ ov.phase = "loop"
    /\ ov.i > Len(ov.overrides)
    /\ LET merged == ov.heap[ov.merged]
       IN  ov' = IF \E key \in RESOURCE_KEYS :
                       key \in DOMAIN merged /\ ~ResourceValueOk(merged[key])
                 THEN OvRaise(ov, "resource")
                 ELSE OvReturn(ov, ov.merged)
    /\ UNCHANGED <<simVars, tas, ag, rt, ves>>

InitOverrides ==
    /\ SimIdle
    /\ cfg = DemoBase
    /\ tas = TasIdle
    /\ ag = AgIdle /\ rt = RtIdle /\ ves = VesIdle
    /\ \E base \in OvBases, overrides \in OvOverrides : ov = OvCalled(base, overrides)

NextOverrides ==
    \/ apply_overrides_enter
    \/ apply_overrides_item
    \/ apply_overrides_check

SpecOverrides == InitOverrides /\ [][NextOverrides]_vars

\* The call has ended with an error.
OvRaised == ov.phase = "finished" /\ ov.outcome = "raised"

\* The caller's dict is as it was before the call.
OvBaseUntouched == ov.heap.base = ov.base0

OvHasUnknownKey ==
    \E i \in 1 .. Len(ov.overrides) : ov.overrides[i].key \notin ALLOWED_OVERRIDE_KEYS

\* An override of a key of the base config whose type is not the base value's.
OvHasOtherType ==
    \E i \in 1 .. Len(ov.overrides) :
        /\ ov.overrides[i].key \in DOMAIN ov.base0
        /\ ov.overrides[i].value.type # ov.base0[ov.overrides[i].key].type

\* An override the type check of its key refuses.
OvHasRefusedType ==
    \E i \in 1 .. Len(ov.overrides) :
        /\ ov.overrides[i].key \in DOMAIN ov.base0
        /\ ~_validate_type(ov.overrides[i].value, ov.base0[ov.overrides[i].key])

\* The seven integer capacities of a scenario.
CapacityKeys == RESOURCE_KEYS \cup {"yard_capacity"}

\* An override that sets one of keys to an integer below 1.
OvSetsBelowOne(keys) ==
    \E i \in 1 .. Len(ov.overrides) :
        /\ ov.overrides[i].key \in keys
        /\ ov.overrides[i].value.type = "int"
        /\ ov.overrides[i].value.v < 1

-----------------------------------------------------------------------------
(* build_tas_arrival_schedule(sim_time_mins, params, rng, np_rng,          *)
(* max_attempts).  Times are whole minutes, no_show_prob is in hundredths. *)

\* Most bookings sample_nhpp_slot_times draws for an hour.
MaxBookings == 2

\* Largest max_attempts of a call.
MaxAttempts == 2

TasParams(multipliers, no_show_prob, arrival_std_mins) ==
    [ hourly_arrival_multipliers |-> multipliers, slot_minutes |-> 60,
      late_tolerance_mins |-> 30, no_show_prob |-> no_show_prob,
      arrival_std_mins |-> arrival_std_mins ]

RECURSIVE SumSeq(_)
SumSeq(q) == IF q = <<>> THEN 0 ELSE Head(q) + SumSeq(Tail(q))

\* validate_hourly_multipliers returns (TRUE) or raises (FALSE).
validate_hourly_multipliers(multipliers) == Len(multipliers) = 24 /\ SumSeq(multipliers) = 24

\* An alignment to the slot boundary at or before t_min.
next_slot_start_floor(t_min, slot_minutes) == (t_min \div slot_minutes) * slot_minutes

\* math.ceil(t_min / slot_minutes) * slot_minutes
next_slot_start(t_min, slot_minutes) ==
    ((t_min + slot_minutes - 1) \div slot_minutes) * slot_minutes

\* sample_rebook_delay_minutes: a lognormal sample is positive.
RebookDelays == {1, 60}

\* rng.random() < no_show_prob, for rng.random() in [0, 1).
NoShowDraws(no_show_prob) ==
    (IF no_show_prob > 0 THEN {TRUE} ELSE {}) \cup (IF no_show_prob < 100 THEN {FALSE} ELSE {})

\* rng.normalvariate(0.0, arrival_std_mins)
ArrivalDeviations(arrival_std_mins) ==
    IF arrival_std_mins = 0 THEN {0} ELSE {0 - 40, 20, 100}

\* The offsets of the bookings of an hour: np_rng.random(count) * 60.0
BookingOffsets == {0, 30}

\* The lists sample_nhpp_slot_times returns for a horizon of one hour: a
\* Poisson count of offsets, sorted.
SlotTimeLists ==
    UNION {{q \in [1 .. n -> BookingOffsets] : \A i \in 1 .. n - 1 : q[i] <= q[i + 1]}
              : n \in 0 .. MaxBookings}

\* schedule.sort(key=lambda x: x[0]): a stable sort by arrival time.
RECURSIVE InsertByArrival(_, _)
InsertByArrival(sorted, x) ==
    IF sorted = <<>> THEN <<x>>
    ELSE IF Head(sorted).arrival <= x.arrival
    THEN <<Head(sorted)>> \o InsertByArrival(Tail(sorted), x)
    ELSE <<x>> \o sorted

\* A schedule left in booking order.
SortByArrivalSkipped(q) == q

RECURSIVE SortByArrival(_)
SortByArrival(q) ==
    IF q = <<>> THEN <<>>
    ELSE InsertByArrival(SortByArrival(SubSeq(q, 1, Len(q) - 1)), q[Len(q)])

TasCalled(params, max_attempts) ==
    [phase |-> "called", params |-> params, max_attempts |-> max_attempts,
     slot_times |-> <<>>, idx |-> 0, slot_start |-> 0, missed |-> 0, attempts |-> 0,
     schedule |-> <<>>, log |-> <<>>]

\* The for loop moves to booking idx, or past the last one.
TasBooking(t, idx) ==
    IF idx > Len(t.slot_times) THEN [t EXCEPT !.phase = "sort", !.idx = idx]
    ELSE [t EXCEPT !.phase = "loop", !.idx = idx, !.slot_start = t.slot_times[idx],
                   !.missed = 0, !.attempts = 0]

\* The while loop is left for good: what it did for this booking is logged.
TasLeave(t, tries, accepted) ==
    TasBooking([t EXCEPT !.log = Append(@, [tries |-> tries, accepted |-> accepted])],
               t.idx + 1)

\* A retry cap that is one attempt late.
CapReachedLate(attempts, max_attempts) == attempts > max_attempts + 1

\* if attempts > max_attempts: break
CapReached(attempts, max_attempts) == attempts > max_attempts

\* The call up to the for loop: the slot bookings are sampled.
build_tas_arrival_schedule_start ==
    /\ tas.phase = "called"
    /\ IF validate_hourly_multipliers(tas.params.hourly_arrival_multipliers)
       THEN \E q \in SlotTimeLists : tas' = TasBooking([tas EXCEPT !.slot_times = q], 1)
       ELSE tas' = [tas EXCEPT !.phase = "raised"]
    /\ UNCHANGED <<simVars, ov, ag, rt, ves>>

\* One pass of the while loop for the current booking.
build_tas_arrival_schedule_attempt ==
    /\ tas.phase = "loop"
    /\ LET attempts == tas.attempts + 1
           P == tas.params
           t == [tas EXCEPT !.attempts = attempts]
       IN  IF CapReached(attempts, tas.max_attempts)
           THEN tas' = TasLeave(t, attempts - 1, FALSE)
           ELSE \E no_show \in NoShowDraws(P.no_show_prob) :
                   IF no_show
                   THEN \E delay \in RebookDelays :
                           tas' = [t EXCEPT !.missed = @ + 1,
                                            !.slot_start = next_slot_start(tas.slot_start + delay,
                                                                           P.slot_minutes)]
                   ELSE \E dev \in ArrivalDeviations(P.arrival_std_mins) :
                           LET arrival == Max(tas.slot_start + dev, 0)
                           IN  IF arrival > tas.slot_start + P.slot_minutes
                                                + P.late_tolerance_mins
                               THEN \E delay \in RebookDelays :
                                       tas' = [t EXCEPT !.missed = @ + 1,
                                                        !.slot_start =
                                                            next_slot_start(arrival + delay,
                                                                            P.slot_minutes)]
                               ELSE tas' = TasLeave(
                                       [t EXCEPT !.schedule =
                                           Append(@, [arrival |-> arrival,
                                                      slot_start |-> tas.slot_start,
                                                      missed |-> tas.missed])],
                                       attempts, TRUE)
    /\ UNCHANGED <<simVars, ov, ag, rt, ves>>

\* The schedule is sorted and returned.
build_tas_arrival_schedule_return ==
    /\ tas.phase = "sort"
    /\ tas' = [tas EXCEPT !.phase = "returned", !.schedule = SortByArrival(@)]
    /\ UNCHANGED <<simVars, ov, ag, rt, ves>>

TasMultipliers == {[h \in 1 .. 24 |-> 1], [h \in 1 .. 23 |-> 1]}

InitTas ==
    /\ SimIdle
    /\ cfg = DemoBase
    /\ ov = OvIdle
    /\ ag = AgIdle /\ rt = RtIdle /\ ves = VesIdle
    /\ \E m \in TasMultipliers, p \in {0, 22, 100}, std \in {0, 15},
          max_attempts \in {0, 1, MaxAttempts} :
          tas = TasCalled(TasParams(m, p, std), max_attempts)

NextTas ==
    \/ build_tas_arrival_schedule_start
    \/ build_tas_arrival_schedule_attempt
    \/ build_tas_arrival_schedule_return

\* A call that is not stopped from outside runs on while it has a step to take.
SpecTas == InitTas /\ [][NextTas]_vars /\ WF_vars(NextTas)

TasEnded == tas.phase \in {"returned", "raised"}

\* No booking was, or is being, given more than max_attempts attempts.
TasWithinCap ==
    /\ tas.phase = "loop" => tas.attempts <= Max(tas.max_attempts, 0)
    /\ \A i \in 1 .. Len(tas.log) : tas.log[i].tries <= Max(tas.max_attempts, 0)

\* With no_show_prob = 1.0 every booking is left through the cap and none is accepted.
TasAllNoShow ==
    (tas.params.no_show_prob = 100 /\ tas.phase = "returned") =>
        /\ tas.schedule = <<>>
        /\ Len(tas.log) = Len(tas.slot_times)
        /\ \A i \in 1 .. Len(tas.log) :
              ~tas.log[i].accepted /\ tas.log[i].tries = Max(tas.max_attempts, 0)

\* C10: build_tas_arrival_schedule always ends; the resolve loop gives each
\* booking at most max_attempts attempts; and with no_show_prob = 1.0 every
\* booking is left through the retry cap and the returned schedule is empty.
C10_ResolveLoopTerminates == [](TasWithinCap /\ TasAllNoShow) /\ <>TasEnded

\* A call with no_show_prob = 1.0 has returned after using up the attempts
\* of two bookings.
C10_Witness ==
    /\ tas.phase = "returned"
    /\ tas.params.no_show_prob = 100
    /\ tas.max_attempts = MaxAttempts
    /\ Len(tas.slot_times) = 2
    /\ tas.schedule = <<>>

\* The entries of the schedule with this missed count, and the accepted
\* bookings that had this many attempts before the accepting one.
EntriesWithMissed(n) == {i \in 1 .. Len(tas.schedule) : tas.schedule[i].missed = n}
AcceptedAfter(n) == {j \in 1 .. Len(tas.log) : tas.log[j].accepted /\ tas.log[j].tries - 1 = n}

\* An accepted entry: its arrival is within the window of its final slot.
AcceptedInWindow(e) ==
    /\ 0 <= e.arrival
    /\ e.arrival <= e.slot_start + tas.params.slot_minutes + tas.params.late_tolerance_mins
    /\ e.missed > 0 => e.slot_start % tas.params.slot_minutes = 0

\* A pass of the while loop that stays with the booking is a rebook.
RebookMovesLater ==
    (tas.phase = "loop" /\ tas'.phase = "loop" /\ tas'.idx = tas.idx) =>
        /\ tas'.slot_start % tas.params.slot_minutes = 0
        /\ tas'.slot_start > tas.slot_start
        /\ tas'.missed = tas.missed + 1
        /\ tas'.schedule = tas.schedule

\* C28: an accepted booking arrives between 0 and the end of its final
\* slot plus the late tolerance, its missed count is the number of no-show
\* or late attempts before the accepting one, a booking yields at most one
\* entry, and a rebook moves slot_start to a later multiple of slot_minutes.
C28_AcceptedBookingsWithinWindow ==
    /\ [](tas.phase \in {"loop", "sort", "returned"} =>
            /\ \A i \in 1 .. Len(tas.schedule) : AcceptedInWindow(tas.schedule[i])
            /\ \A n \in 0 .. MaxAttempts + 1 :
                  Cardinality(EntriesWithMissed(n)) = Cardinality(AcceptedAfter(n))
            /\ Len(tas.log) <= Len(tas.slot_times)
            /\ Len(tas.schedule) <= Len(tas.log)
            /\ tas.phase = "loop" => Len(tas.log) = tas.idx - 1 /\ tas.missed = tas.attempts)
    /\ [][RebookMovesLater]_vars

\* The returned schedule holds a booking accepted at once and one accepted
\* after a miss, in a later slot, arriving before that slot starts.
C28_Witness ==
    /\ tas.phase = "returned"
    /\ \E i, j \in 1 .. Len(tas.schedule) :
          /\ tas.schedule[i].missed = 0
          /\ tas.schedule[j].missed = 1
          /\ tas.schedule[j].slot_start >= 120
          /\ tas.schedule[j].arrival < tas.schedule[j].slot_start

-----------------------------------------------------------------------------
(* truck_tas_arrival_generator and truck_process_tas, run by an             *)
(* environment that starts the generator at time 0 with a gate-in lane, a   *)
(* loader and a gate-out lane, a yard and a ready store that holds the      *)
(* containers made ready so far.  The generator's call of                   *)
(* build_tas_arrival_schedule is the first part of its first activation;    *)
(* its retry cap is the bound MaxAttempts.  gate_in_time_fn,                *)
(* pickup_service_time_fn and gate_out_time_fn are None or return a fixed   *)
(* time; select_containers_fn and record_container_metrics are None.        *)

\* The keys of the dict tm of truck_process_tas.
TasTmFields ==
    { "t_slot_start", "missed_slot_count", "t_precinct_arrival", "t_gate_in_queue_enter",
      "t_gate_in_start", "t_gate_in_end", "t_yard_entry", "t_ready_claim_time",
      "t_pickup_queue_enter", "t_pickup_start", "t_pickup_end", "picked_teu",
      "picked_containers", "t_gate_out_queue_enter", "t_gate_out_start", "t_gate_out_end",
      "t_exit" }

EmptyTasTm == [f \in TasTmFields |-> None]

\* The optional service-time functions: None, or the time the function returns.
TasArgs(gate_in_time, pickup_service_time, gate_out_time) ==
    [gate_in_time |-> gate_in_time, pickup_service_time |-> pickup_service_time,
     gate_out_time |-> gate_out_time]

TasArgSets == {TasArgs(None, None, None), TasArgs(20, 10, 5)}

\* What the ready store holds when the run starts.
TasStoreFills ==
    { <<>>, <<Item(<<"S", 0>>, 1)>>, <<Item(<<"S", 0>>, 2), Item(<<"S", 1>>, 1)>> }

\* The slot bookings sample_nhpp_slot_times draws for the generator's horizon.
TasReplayBookings == { <<>>, <<0>>, <<0, 30>>, <<30, 30>> }

TasRunning == phase = "tas_run" /\ tas.phase = "returned" /\ queue # <<>>

TasAt(p, kind, label) == TasRunning /\ E.p = p /\ E.kind = kind /\ pc[p] = label

\* A truck that goes to the gate at once, early or not.
StagingWaitNone(t, slot_start) == 0

\* if env.now < slot_start: the time the truck waits in staging (0: no wait).
StagingWait(t, slot_start) == IF t < slot_start THEN slot_start - t ELSE 0

\* The for loop of the generator from entry n + 1 on, at time t: trucks
\* whose arrival time has come are started, the first later one is waited for.
RECURSIVE TasGeneratorLoop(_, _, _, _)
TasGeneratorLoop(K, t, n, pcs) ==
    IF n >= Len(tas.schedule)
    THEN [K |-> K, n |-> n, pc |-> [pcs EXCEPT ![GenTruck] = "done"]]
    ELSE LET wait == Max(0, tas.schedule[n + 1].arrival - t)
         IN  IF wait > 0
             THEN [K |-> Timeout(K, GenTruck, t, wait), n |-> n,
                   pc |-> [pcs EXCEPT ![GenTruck] = "wait"]]
             ELSE TasGeneratorLoop(StartProcess(K, <<"T", n>>, t), t, n + 1,
                                   [pcs EXCEPT ![<<"T", n>>] = "new"])

\* The generator calls build_tas_arrival_schedule(stop_time, params, ...):
\* the multipliers are validated and the slot bookings sampled.
truck_tas_arrival_generator_build ==
    /\ phase = "tas_run" /\ tas.phase = "called"
    /\ IF validate_hourly_multipliers(tas.params.hourly_arrival_multipliers)
       THEN \E q \in TasReplayBookings : tas' = TasBooking([tas EXCEPT !.slot_times = q], 1)
       ELSE tas' = [tas EXCEPT !.phase = "raised"]
    /\ UNCHANGED <<simVars, ov, ag, rt, ves>>

\* The generator's first activation, once the schedule is built.
truck_tas_arrival_generator_start ==
    /\ TasAt(GenTruck, "init", "new")
    /\ now' = E.t
    /\ LET r == TasGeneratorLoop(K0, E.t, 0, pc)
       IN  /\ SetK(r.K)
           /\ pc' = r.pc
           /\ loc' = [loc EXCEPT ![GenTruck].n = r.n]
    /\ UNCHANGED <<phase, cfg, ts, tm, metrics, df, stats, ov, tas, ag, rt, ves>>

\* The generator is resumed: the truck it waited for is started and the
\* loop goes on.
truck_tas_arrival_generator_wake ==
    /\ TasAt(GenTruck, "timeout", "wait")
    /\ now' = E.t
    /\ LET n == loc[GenTruck].n
           r == TasGeneratorLoop(StartProcess(K0, <<"T", n>>, E.t), E.t, n + 1,
                                 [pc EXCEPT ![<<"T", n>>] = "new"])
       IN  /\ SetK(r.K)
           /\ pc' = r.pc
           /\ loc' = [loc EXCEPT ![GenTruck].n = r.n]
    /\ UNCHANGED <<phase, cfg, ts, tm, metrics, df, stats, ov, tas, ag, rt, ves>>

\* build_tas_arrival_schedule raised: the generator's process fails.
truck_tas_arrival_generator_raises ==
    /\ phase = "tas_run" /\ tas.phase = "raised"
    /\ phase' = "error"
    /\ UNCHANGED <<cfg, now, queue, res, yard, store, pc, loc, ts, tm, metrics, df, stats,
                   ov, tas, ag, rt, ves>>

\* A release event is processed: the next request of the resource is granted.
tas_release_processed ==
    /\ TasRunning /\ E.kind = "release"
    /\ now' = E.t
    /\ SetK(TriggerPutRes(K0, E.r, E.t))
    /\ UNCHANGED <<phase, cfg, pc, loc, ts, tm, metrics, df, stats, ov, tas, ag, rt, ves>>

\* tm["t_gate_in_queue_enter"] = env.now, and the gate-in request.
TasEnterGateIn(k, K, m, t) ==
    /\ tm' = [tm EXCEPT ![k] = Stamp(m, [t_gate_in_queue_enter |-> t])]
    /\ SetK(Request(K, "gate_in", k, t))
    /\ pc' = [pc EXCEPT ![k] = "gate_in_req"]

\* From the start of truck_process_tas to its first yield.
truck_process_tas_start(k) ==
    /\ TasAt(k, "init", "new")
    /\ now' = E.t
    /\ LET e == tas.schedule[k[2] + 1]
           m == Stamp(EmptyTasTm, [t_slot_start |-> e.slot_start,
                                   missed_slot_count |-> e.missed,
                                   t_precinct_arrival |-> E.t])
           wait == StagingWait(E.t, e.slot_start)
       IN  IF wait > 0
           THEN /\ tm' = [tm EXCEPT ![k] = m]
                /\ SetK(Timeout(K0, k, E.t, wait))
                /\ pc' = [pc EXCEPT ![k] = "staging"]
           ELSE TasEnterGateIn(k, K0, m, E.t)
    /\ UNCHANGED <<phase, cfg, loc, ts, metrics, df, stats, ov, tas, ag, rt, ves>>

\* The staging wait ends.
truck_process_tas_staged(k) ==
    /\ TasAt(k, "timeout", "staging")
    /\ now' = E.t
    /\ TasEnterGateIn(k, K0, tm[k], E.t)
    /\ UNCHANGED <<phase, cfg, loc, ts, metrics, df, stats, ov, tas, ag, rt, ves>>

\* The end of gate-in: the lane is released and the claim process started.
TasAfterGateIn(k, K, m, t) ==
    /\ tm' = [tm EXCEPT ![k] = Stamp(m, [t_gate_in_end |-> t, t_yard_entry |-> t])]
    /\ SetK(StartProcess(Release(K, "gate_in", k, t), Sel(k), t))
    /\ pc' = [pc EXCEPT ![k] = "claiming", ![Sel(k)] = "new"]

truck_process_tas_gate_in_granted(k) ==
    /\ TasAt(k, "req", "gate_in_req")
    /\ now' = E.t
    /\ LET m == Stamp(tm[k], [t_gate_in_start |-> E.t])
       IN  IF cfg.gate_in_time # None
           THEN /\ tm' = [tm EXCEPT ![k] = m]
                /\ SetK(Timeout(K0, k, E.t, cfg.gate_in_time))
                /\ pc' = [pc EXCEPT ![k] = "gate_in_service"]
           ELSE TasAfterGateIn(k, K0, m, E.t)
    /\ UNCHANGED <<phase, cfg, loc, ts, metrics, df, stats, ov, tas, ag, rt, ves>>

truck_process_tas_gate_in_done(k) ==
    /\ TasAt(k, "timeout", "gate_in_service")
    /\ now' = E.t
    /\ TasAfterGateIn(k, K0, tm[k], E.t)
    /\ UNCHANGED <<phase, cfg, loc, ts, metrics, df, stats, ov, tas, ag, rt, ves>>

\* _claim_ready_containers with no selection policy: one ready_store.get().
_claim_ready_containers_start(sp) ==
    /\ TasAt(sp, "init", "new")
    /\ now' = E.t
    /\ SetK(StoreGet(K0, sp, "any", E.t))
    /\ pc' = [pc EXCEPT ![sp] = "get"]
    /\ UNCHANGED <<phase, cfg, loc, ts, tm, metrics, df, stats, ov, tas, ag, rt, ves>>

\* The item arrives: the process returns [item].
_claim_ready_containers_return(sp) ==
    /\ TasAt(sp, "sget", "get")
    /\ now' = E.t
    /\ loc' = [loc EXCEPT ![sp].items = <<E.item>>]
    /\ SetK(SelectReturn(K0, sp, E.t))
    /\ pc' = [pc EXCEPT ![sp] = "done"]
    /\ UNCHANGED <<phase, cfg, ts, tm, metrics, df, stats, ov, tas, ag, rt, ves>>

\* The containers are claimed: the truck asks for a loader.
truck_process_tas_claimed(k) ==
    /\ TasAt(k, "procdone", "claiming")
    /\ now' = E.t
    /\ loc' = [loc EXCEPT ![k].items = loc[Sel(k)].items]
    /\ tm' = [tm EXCEPT ![k] = Stamp(@, [t_ready_claim_time |-> E.t,
                                          t_pickup_queue_enter |-> E.t])]
    /\ SetK(Request(K0, "loaders", k, E.t))
    /\ pc' = [pc EXCEPT ![k] = "pickup_req"]
    /\ UNCHANGED <<phase, cfg, ts, metrics, df, stats, ov, tas, ag, rt, ves>>

\* tm["t_gate_out_queue_enter"] = env.now, and the gate-out request.
TasEnterGateOut(k, K, m, t) ==
    /\ tm' = [tm EXCEPT ![k] = Stamp(m, [t_gate_out_queue_enter |-> t])]
    /\ SetK(Request(K, "gate_out", k, t))
    /\ pc' = [pc EXCEPT ![k] = "gate_out_req"]

\* The end of the pickup: the loader is released and the picked TEU are
\* taken out of the yard.
TasAfterPickup(k, K, m, t) ==
    LET picked_teu == SumTeu(loc[k].items)
        m2 == Stamp(m, [t_pickup_end |-> t, picked_teu |-> picked_teu,
                        picked_containers |-> Len(loc[k].items)])
        K2 == Release(K, "loaders", k, t)
    IN  IF picked_teu > 0
        THEN /\ tm' = [tm EXCEPT ![k] = m2]
             /\ SetK(YardGet(K2, k, picked_teu, t))
             /\ pc' = [pc EXCEPT ![k] = "yard_get"]
        ELSE TasEnterGateOut(k, K2, m2, t)

truck_process_tas_pickup_granted(k) ==
    /\ TasAt(k, "req", "pickup_req")
    /\ now' = E.t
    /\ LET m == Stamp(tm[k], [t_pickup_start |-> E.t])
       IN  IF cfg.pickup_service_time # None
           THEN /\ tm' = [tm EXCEPT ![k] = m]
                /\ SetK(Timeout(K0, k, E.t, cfg.pickup_service_time))
                /\ pc' = [pc EXCEPT ![k] = "pickup_service"]
           ELSE TasAfterPickup(k, K0, m, E.t)
    /\ UNCHANGED <<phase, cfg, loc, ts, metrics, df, stats, ov, tas, ag, rt, ves>>

truck_process_tas_pickup_done(k) ==
    /\ TasAt(k, "timeout", "pickup_service")
    /\ now' = E.t
    /\ TasAfterPickup(k, K0, tm[k], E.t)
    /\ UNCHANGED <<phase, cfg, loc, ts, metrics, df, stats, ov, tas, ag, rt, ves>>

\* yard.get succeeded: the truck goes to the gate-out queue.
truck_process_tas_yard_left(k) ==
    /\ TasAt(k, "yget", "yard_get")
    /\ now' = E.t
    /\ TasEnterGateOut(k, TriggerPutYard(K0, E.t), tm[k], E.t)
    /\ UNCHANGED <<phase, cfg, loc, ts, metrics, df, stats, ov, tas, ag, rt, ves>>

\* record_truck_metrics(truck_id, tm): the caller's list gets a copy of tm.
record_truck_metrics(list, truck_id, m) == Append(list, [truck_id |-> truck_id, tm |-> m])

\* The end of gate-out: the exit is stamped, the lane released and the
\* truck's record handed over.
TasAfterGateOut(k, K, m, t) ==
    LET m2 == Stamp(m, [t_gate_out_end |-> t, t_exit |-> t])
    IN  /\ tm' = [tm EXCEPT ![k] = m2]
        /\ metrics' = record_truck_metrics(metrics, k[2], m2)
        /\ SetK(Release(K, "gate_out", k, t))
        /\ pc' = [pc EXCEPT ![k] = "done"]

truck_process_tas_gate_out_granted(k) ==
    /\ TasAt(k, "req", "gate_out_req")
    /\ now' = E.t
    /\ LET m == Stamp(tm[k], [t_gate_out_start |-> E.t])
       IN  IF cfg.gate_out_time # None
           THEN /\ tm' = [tm EXCEPT ![k] = m]
                /\ SetK(Timeout(K0, k, E.t, cfg.gate_out_time))
                /\ pc' = [pc EXCEPT ![k] = "gate_out_service"]
                /\ UNCHANGED metrics
           ELSE TasAfterGateOut(k, K0, m, E.t)
    /\ UNCHANGED <<phase, cfg, loc, ts, df, stats, ov, tas, ag, rt, ves>>

truck_process_tas_gate_out_done(k) ==
    /\ TasAt(k, "timeout", "gate_out_service")
    /\ now' = E.t
    /\ TasAfterGateOut(k, K0, tm[k], E.t)
    /\ UNCHANGED <<phase, cfg, loc, ts, df, stats, ov, tas, ag, rt, ves>>

InitTasTrucks ==
    /\ phase = "tas_run"
    /\ cfg \in TasArgSets
    /\ now = 0
    /\ queue = << Ev(0, 0, "init", GenTruck, "", NoItem) >>
    /\ res = [r \in UnitResources |->
                 [capacity |-> IF r \in {"gate_in", "loaders", "gate_out"} THEN 1 ELSE 0,
                  users |-> {}, queue |-> <<>>]]
    /\ \E items \in TasStoreFills :
          /\ store = [items |-> items, getq |-> <<>>]
          /\ yard = [capacity |-> 4, level |-> SumTeu(items), putq |-> <<>>, getq |-> <<>>]
    /\ pc = [p \in Procs |-> IF p = GenTruck THEN "new" ELSE "none"]
    /\ loc = [p \in Procs |-> NoLoc]
    /\ ts = [c \in Containers |-> EmptyTs]
    /\ tm = [k \in TruckProcs |-> EmptyTasTm]
    /\ metrics = <<>>
    /\ df = EmptyFrame
    /\ stats = NoStats
    /\ ov = OvIdle
    /\ ag = AgIdle /\ rt = RtIdle /\ ves = VesIdle
    /\ \E m \in TasMultipliers :
          tas = TasCalled(TasParams(m, 22, 15), MaxAttempts)

NextTasTrucks ==
    \/ truck_tas_arrival_generator_build
    \/ build_tas_arrival_schedule_attempt
    \/ build_tas_arrival_schedule_return
    \/ truck_tas_arrival_generator_start
    \/ truck_tas_arrival_generator_wake
    \/ truck_tas_arrival_generator_raises
    \/ tas_release_processed
    \/ \E k \in TruckProcs :
          \/ truck_process_tas_start(k)
          \/ truck_process_tas_staged(k)
          \/ truck_process_tas_gate_in_granted(k)
          \/ truck_process_tas_gate_in_done(k)
          \/ truck_process_tas_claimed(k)
          \/ truck_process_tas_pickup_granted(k)
          \/ truck_process_tas_pickup_done(k)
          \/ truck_process_tas_yard_left(k)
          \/ truck_process_tas_gate_out_granted(k)
          \/ truck_process_tas_gate_out_done(k)
    \/ \E sp \in SelectProcs :
          \/ _claim_ready_containers_start(sp)
          \/ _claim_ready_containers_return(sp)

SpecTasTrucks == InitTasTrucks /\ [][NextTasTrucks]_vars

TasStarted(k) == pc[k] # "none"

TasEntry(k) == tas.schedule[k[2] + 1]

\* The returned schedule is in non-decreasing order of arrival time.
ScheduleSorted ==
    \A i \in 1 .. Len(tas.schedule) - 1 :
        tas.schedule[i].arrival <= tas.schedule[i + 1].arrival

\* Trucks are started in the order of their ids, each with the slot and the
\* missed count of its schedule entry, and a started truck's arrival stamp
\* is its scheduled arrival time.
StartedInScheduleOrder ==
    \A k \in TruckProcs :
        TasStarted(k) =>
            /\ k[2] < Len(tas.schedule)
            /\ \A j \in TruckProcs : j[2] < k[2] =>
                  TasStarted(j) /\ TasEntry(j).arrival <= TasEntry(k).arrival
            /\ tm[k]["t_precinct_arrival"] # None =>
                  /\ tm[k]["t_precinct_arrival"] = TasEntry(k).arrival
                  /\ tm[k]["t_slot_start"] = TasEntry(k).slot_start
                  /\ tm[k]["missed_slot_count"] = TasEntry(k).missed

\* The step that starts a truck is taken at the truck's scheduled arrival time.
StartedAtArrival ==
    \A k \in TruckProcs :
        (~TasStarted(k) /\ pc'[k] # "none") => now' = TasEntry(k).arrival

\* C29: the schedule build_tas_arrival_schedule returns is sorted by
\* non-decreasing arrival time, and truck_tas_arrival_generator starts truck
\* k at the arrival time of entry k, in the order of the ids, whatever the
\* missed counts of the trucks before it.
C29_ScheduleReplayedInArrivalOrder ==
    /\ [](phase = "tas_run" /\ tas.phase = "returned" =>
             ScheduleSorted /\ StartedInScheduleOrder)
    /\ [][StartedAtArrival]_vars

\* Two trucks have arrived at different times, the first after a missed slot.
C29_Witness ==
    /\ phase = "tas_run" /\ tas.phase = "returned"
    /\ tm[<<"T", 0>>]["missed_slot_count"] = 1
    /\ tm[<<"T", 1>>]["t_precinct_arrival"] # None
    /\ tm[<<"T", 1>>]["t_precinct_arrival"] > tm[<<"T", 0>>]["t_precinct_arrival"]
    /\ tas.log[1].tries = 1 /\ tas.log[2].tries = 2

\* The stop_time the generator is called with: the bookings of
\* TasReplayBookings are those of a horizon of one hour.
TasStopTime == 60

\* C31: truck_tas_arrival_generator starts no truck process at a simulated
\* time at or after stop_time, rebooked trucks included.
C31_NoTasArrivalsPastHorizon ==
    [][\A k \in TruckProcs :
          (~TasStarted(k) /\ pc'[k] # "none") => now' < TasStopTime]_vars

\* The yields of truck_process_tas, in code order; the staging wait and the
\* three service timeouts are not always taken.
TasStages ==
    << "new", "staging", "gate_in_req", "gate_in_service", "claiming", "pickup_req",
       "pickup_service", "yard_get", "gate_out_req", "gate_out_service", "done" >>

TasOptionalStages == {"staging", "gate_in_service", "pickup_service", "gate_out_service"}

TasStageIndex(label) ==
    IF \E i \in 1 .. Len(TasStages) : TasStages[i] = label
    THEN CHOOSE i \in 1 .. Len(TasStages) : TasStages[i] = label
    ELSE 0

\* The time stamps of truck_process_tas, in code order.
TasStamps ==
    << "t_precinct_arrival", "t_gate_in_queue_enter", "t_gate_in_start", "t_gate_in_end",
       "t_ready_claim_time", "t_pickup_start", "t_pickup_end", "t_gate_out_queue_enter",
       "t_gate_out_start", "t_gate_out_end" >>

TruckRecords(k) == {i \in 1 .. Len(metrics) : metrics[i].truck_id = k[2]}

\* The truck is in the gate-in queue from max(arrival, slot start) on, its
\* stamps are written in order, it holds the loader for the pickup only, and
\* its record is handed over once, when it has left the gate.
TasTruckInOrder(k) ==
    /\ TasStageIndex(pc[k]) > 0
    /\ tm[k]["t_gate_in_queue_enter"] # None =>
          /\ tm[k]["t_gate_in_queue_enter"] =
                 Max(tm[k]["t_precinct_arrival"], tm[k]["t_slot_start"])
          /\ tm[k]["t_gate_in_queue_enter"] >= tm[k]["t_slot_start"]
    /\ TasStageIndex(pc[k]) >= TasStageIndex("gate_in_req")
          <=> tm[k]["t_gate_in_queue_enter"] # None
    /\ \A i \in 1 .. Len(TasStamps) - 1 :
          tm[k][TasStamps[i + 1]] # None =>
              /\ tm[k][TasStamps[i]] # None
              /\ tm[k][TasStamps[i]] <= tm[k][TasStamps[i + 1]]
    /\ k \in res["gate_in"].users => pc[k] \in {"gate_in_req", "gate_in_service"}
    /\ k \in res["loaders"].users => pc[k] \in {"pickup_req", "pickup_service"}
    /\ k \in res["gate_out"].users => pc[k] \in {"gate_out_req", "gate_out_service"}
    /\ Cardinality(TruckRecords(k)) = (IF pc[k] = "done" THEN 1 ELSE 0)
    /\ \A i \in TruckRecords(k) :
          /\ metrics[i].tm = tm[k]
          /\ metrics[i].tm["t_exit"] # None
          /\ metrics[i].tm["t_exit"] = metrics[i].tm["t_gate_out_end"]

\* A step of the truck takes it to a later stage, leaving out optional
\* stages only; its yard.get asks for the TEU of the containers it claimed.
TasNextStage(k) ==
    (TasStarted(k) /\ pc'[k] # pc[k]) =>
        /\ TasStageIndex(pc'[k]) > TasStageIndex(pc[k])
        /\ \A i \in TasStageIndex(pc[k]) + 1 .. TasStageIndex(pc'[k]) - 1 :
              TasStages[i] \in TasOptionalStages
        /\ pc'[k] = "yard_get" =>
              /\ loc[k].items # <<>> /\ loc[k].items = loc[Sel(k)].items
              /\ \/ \E i \in 1 .. Len(yard'.getq) :
                       yard'.getq[i] = [p |-> k, n |-> SumTeu(loc[k].items)]
                 \/ yard'.level = yard.level - SumTeu(loc[k].items)

\* C30: a TAS truck enters the gate-in queue at max(arrival time, slot
\* start), never before its slot start, then goes through gate-in, the claim
\* of containers, the pickup service on the loader resource, yard.get of the
\* claimed TEU and gate-out, and record_truck_metrics is called once, at exit.
C30_TasTruckWaitsForSlot ==
    /\ [](phase = "tas_run" /\ tas.phase = "returned" =>
             \A k \in TruckProcs : TasStarted(k) => TasTruckInOrder(k))
    /\ [][\A k \in TruckProcs : TasNextStage(k)]_vars

\* One truck came early and waited for its slot, another came after its
\* slot had started; both have left and each has one record.
C30_Witness ==
    \E k, j \in TruckProcs :
        /\ pc[k] = "done" /\ pc[j] = "done"
        /\ tm[k]["t_precinct_arrival"] < tm[k]["t_slot_start"]
        /\ tm[k]["t_gate_in_queue_enter"] = tm[k]["t_slot_start"]
        /\ tm[j]["t_precinct_arrival"] > tm[j]["t_slot_start"]
        /\ tm[j]["t_gate_in_queue_enter"] = tm[j]["t_precinct_arrival"]
        /\ Cardinality(TruckRecords(k)) = 1 /\ Cardinality(TruckRecords(j)) = 1

-----------------------------------------------------------------------------
(* run_agentic_demo(out_dir, seed, max_actions, base_config).  A config is *)
(* a dict on the keys the agent's actions name; a KPI table is what        *)
(* diagnose reads of kpis.csv: its row count, its columns and the stages   *)
(* with a contribution, largest first.                                     *)

STAGE_CANDIDATES ==
    << "scan_wait", "yard_to_scan_wait", "yard_to_truck_wait", "loading_wait", "gate_wait",
       "pre_pickup_wait", "ready_to_pickup_wait", "yard_equipment_wait" >>

StageSet == {STAGE_CANDIDATES[i] : i \in 1 .. Len(STAGE_CANDIDATES)}

MAX_TOTAL_DELTA_DEFAULT == 2

\* DEFAULT_CONFIDENCE_THRESHOLD, in hundredths.
DEFAULT_CONFIDENCE_THRESHOLD == 50

\* One entry of ACTION_MAP with DEFAULT_ACTION_BOUNDS.
Action(stage, param) == [stage |-> stage, param |-> param, delta |-> 1, min |-> 1, max |-> 10]

ACTION_MAP ==
    [stage \in StageSet |->
        CASE stage = "scan_wait" -> << Action(stage, "num_scanners") >>
          [] stage \in {"yard_to_scan_wait", "yard_to_truck_wait", "yard_equipment_wait"} ->
                << Action(stage, "yard_equipment_capacity") >>
          [] stage = "loading_wait" -> << Action(stage, "num_loaders") >>
          [] stage = "gate_wait" -> << Action(stage, "num_gate_out") >>
          [] stage = "ready_to_pickup_wait" -> << Action(stage, "num_gate_in") >>
          [] OTHER -> << >>]

\* The confidence of _diagnose_dataframe: the share of the nine required
\* columns the table has, rounded to hundredths; 0 for an unusable table.
Confidence(table) ==
    IF table.rows = 0 \/ "total_time" \notin table.columns THEN 0
    ELSE LET present == Cardinality(table.columns \cap (StageSet \cup {"total_time"}))
         IN  (200 * present + (Len(STAGE_CANDIDATES) + 1)) \div (2 * (Len(STAGE_CANDIDATES) + 1))

\* One row of stage_rankings.
Ranking(stage, contribution) == [stage |-> stage, contribution |-> contribution]

\* diagnose_kpis_path: confidence and the stage rankings, largest
\* contribution first; without total_time no stage has a contribution.
diagnose_kpis_path(table) ==
    [confidence |-> Confidence(table),
     stage_rankings |->
         IF "total_time" \in table.columns /\ table.rows > 0
         THEN [i \in 1 .. Len(table.order) |->
                  Ranking(table.order[i], 10 * (Len(table.order) - i + 1))]
         ELSE LET present(stage) == stage \in table.columns
                  stages == SelectSeq(STAGE_CANDIDATES, present)
              IN  [i \in 1 .. Len(stages) |-> Ranking(stages[i], None)]]

\* A ranking that keeps the order it is given.
_sorted_bottlenecks_unsorted(stage_rankings) ==
    LET quantified(row) == row.contribution # None
    IN  SelectSeq(stage_rankings, quantified)

\* _sorted_bottlenecks: the rows with a contribution, largest first, rows of
\* equal contribution in the order they came.
_sorted_bottlenecks(stage_rankings) ==
    LET quantified(row) == row.contribution # None
        rows == SelectSeq(stage_rankings, quantified)
        place(i) == 1 + Cardinality({j \in 1 .. Len(rows) :
                                        \/ rows[j].contribution > rows[i].contribution
                                        \/ /\ rows[j].contribution = rows[i].contribution
                                           /\ j < i})
    IN  [k \in 1 .. Len(rows) |-> rows[CHOOSE i \in 1 .. Len(rows) : place(i) = k]]

\* The two loops of recommend over the top bottlenecks and their actions,
\* from bottleneck i on; every list of ACTION_MAP has at most one action.
RECURSIVE RecommendLoop(_, _, _, _, _, _, _)
RecommendLoop(top, i, recs, seen, total, max_actions, max_total_delta) ==
    IF i > Len(top) THEN recs
    ELSE LET actions == IF top[i].stage \in DOMAIN ACTION_MAP
                        THEN ACTION_MAP[top[i].stage] ELSE << >>
         IN  IF actions = << >>
             THEN RecommendLoop(top, i + 1, recs, seen, total, max_actions, max_total_delta)
             ELSE LET a == actions[1]
                  IN  IF a.param \in seen \/ total + a.delta > max_total_delta
                      THEN RecommendLoop(top, i + 1, recs, seen, total, max_actions,
                                         max_total_delta)
                      ELSE IF Len(recs) + 1 >= max_actions THEN Append(recs, a)
                      ELSE RecommendLoop(top, i + 1, Append(recs, a), seen \cup {a.param},
                                         total + a.delta, max_actions, max_total_delta)

\* A recommend without the confidence gate.
recommend_ungated(diagnostics, max_actions, max_total_delta) ==
    LET sorted == _sorted_bottlenecks(diagnostics.stage_rankings)
        top == SubSeq(sorted, 1, Min(3, Len(sorted)))
    IN  [confidence |-> diagnostics.confidence,
         top_bottlenecks |-> top,
         recommended_actions |->
             RecommendLoop(top, 1, << >>, {}, 0, max_actions, max_total_delta)]

recommend(diagnostics, max_actions, max_total_delta) ==
    LET sorted == _sorted_bottlenecks(diagnostics.stage_rankings)
        top == SubSeq(sorted, 1, Min(3, Len(sorted)))
    IN  [confidence |-> diagnostics.confidence,
         top_bottlenecks |-> top,
         recommended_actions |->
             IF diagnostics.confidence < DEFAULT_CONFIDENCE_THRESHOLD THEN << >>
             ELSE RecommendLoop(top, 1, << >>, {}, 0, max_actions, max_total_delta)]

\* overrides[param] = value on a dict.
DictSet(d, key, value) ==
    [k \in DOMAIN d \cup {key} |-> IF k = key THEN value ELSE d[k]]

\* An apply loop that does not look at the number of applied actions.
RECURSIVE ApplyLoopUncapped(_, _, _, _, _, _, _, _)
ApplyLoopUncapped(baseline_config, recs, i, overrides, applied, total, max_actions,
                  max_total_delta) ==
    LET done == [raised |-> FALSE, error |-> "", overrides |-> overrides, applied |-> applied]
        fail(why) == [raised |-> TRUE, error |-> why, overrides |-> EmptyDict, applied |-> << >>]
    IN  IF i > Len(recs) THEN done
        ELSE LET a == recs[i]
             IN  IF a.delta < 0 THEN fail("delta must be non-negative")
                 ELSE IF a.delta > 1 THEN fail("delta must be +1")
                 ELSE IF total + a.delta > max_total_delta THEN done
                 ELSE IF a.param \notin DOMAIN baseline_config THEN fail("parameter not found")
                 ELSE IF ~IsInstance(baseline_config[a.param], "int") THEN fail("must be int")
                 ELSE LET new_value == baseline_config[a.param].v + a.delta
                      IN  IF a.min # None /\ new_value < a.min THEN fail("below min")
                          ELSE IF a.max # None /\ new_value > a.max THEN fail("above max")
                          ELSE ApplyLoopUncapped(baseline_config, recs, i + 1,
                                         DictSet(overrides, a.param, Val("int", new_value)),
                                         Append(applied, [param |-> a.param, delta |-> a.delta,
                                                          baseline |-> baseline_config[a.param].v,
                                                          applied |-> new_value]),
                                         total + a.delta, max_actions, max_total_delta)

\* The loop of apply_actions from action i on: it raises (raised) or
\* returns the overrides and the applied actions.
RECURSIVE ApplyLoop(_, _, _, _, _, _, _, _)
ApplyLoop(baseline_config, recs, i, overrides, applied, total, max_actions, max_total_delta) ==
    LET done == [raised |-> FALSE, error |-> "", overrides |-> overrides, applied |-> applied]
        fail(why) == [raised |-> TRUE, error |-> why, overrides |-> EmptyDict, applied |-> << >>]
    IN  IF i > Len(recs) \/ Len(applied) >= max_actions THEN done
        ELSE LET a == recs[i]
             IN  IF a.delta < 0 THEN fail("delta must be non-negative")
                 ELSE IF a.delta > 1 THEN fail("delta must be +1")
                 ELSE IF total + a.delta > max_total_delta THEN done
                 ELSE IF a.param \notin DOMAIN baseline_config THEN fail("parameter not found")
                 ELSE IF ~IsInstance(baseline_config[a.param], "int") THEN fail("must be int")
                 ELSE LET new_value == baseline_config[a.param].v + a.delta
                      IN  IF a.min # None /\ new_value < a.min THEN fail("below min")
                          ELSE IF a.max # None /\ new_value > a.max THEN fail("above max")
                          ELSE ApplyLoop(baseline_config, recs, i + 1,
                                         DictSet(overrides, a.param, Val("int", new_value)),
                                         Append(applied, [param |-> a.param, delta |-> a.delta,
                                                          baseline |-> baseline_config[a.param].v,
                                                          applied |-> new_value]),
                                         total + a.delta, max_actions, max_total_delta)

apply_actions_uncapped(baseline_config, recommended_actions, max_actions, max_total_delta) ==
    ApplyLoopUncapped(baseline_config, recommended_actions, 1, EmptyDict, << >>, 0, max_actions,
                      max_total_delta)

apply_actions(baseline_config, recommended_actions, max_actions, max_total_delta) ==
    ApplyLoop(baseline_config, recommended_actions, 1, EmptyDict, << >>, 0, max_actions,
              max_total_delta)

\* config_after = dict(baseline_config); config_after.update(overrides)
DictUpdate(d, overrides) ==
    [k \in DOMAIN d \cup DOMAIN overrides |-> IF k \in DOMAIN overrides THEN overrides[k] ELSE d[k]]

\* run_demo raises for a config whose resources simpy refuses.
RunDemoRuns(config) == \A k \in DOMAIN config \cap RESOURCE_KEYS : config[k].v > 0

\* metadata["config_used"] read back from metadata.json: the numbers and
\* booleans of a config keep their type through json.dumps and json.loads.
ConfigUsed(config) == [k \in DOMAIN config |-> Val(config[k].type, config[k].v)]

RunDemoFilesNoMetadata(dir) == {<<dir, "kpis.csv">>}

\* The files run_demo writes that run_agentic_demo reads or reports.
RunDemoFiles(dir) == {<<dir, "kpis.csv">>, <<dir, "metadata.json">>}

\* Largest max_actions argument of the model.
MaxActionsArg == 2

\* The demo scenario's dict on the resource keys, and variants of it.
AgDemoDict == [k \in RESOURCE_KEYS |-> Val("int", 1)]

AgBaseConfigs ==
    { AgDemoDict,
      [AgDemoDict EXCEPT !["num_scanners"] = Val("int", 10)],
      [AgDemoDict EXCEPT !["num_loaders"] = Val("float", 2)],
      [AgDemoDict EXCEPT !["num_gate_out"] = Val("int", 0)] }

\* The orders the stages with a contribution can come in.
AgOrders ==
    { << >>, << "scan_wait" >>, << "pre_pickup_wait", "scan_wait" >>,
      << "loading_wait", "gate_wait", "scan_wait" >>,
      << "yard_to_scan_wait", "yard_to_truck_wait", "ready_to_pickup_wait" >> }

AgColumnSets ==
    { StageSet \cup {"total_time"}, StageSet,
      {"total_time", "scan_wait", "loading_wait", "gate_wait", "pre_pickup_wait"},
      {"total_time", "scan_wait", "loading_wait", "gate_wait"} }

\* The KPI tables a baseline run can leave.
KpiTables ==
    {t \in [rows : {0, 2}, columns : AgColumnSets, order : AgOrders] :
        /\ \A i \in 1 .. Len(t.order) : t.order[i] \in t.columns
        /\ t.rows = 0 => t.order = << >>}

AgCalled(base_config, max_actions) ==
    [phase |-> "called", base_config |-> base_config, max_actions |-> max_actions,
     calls |-> << >>, files |-> {}, table |-> "none", diagnostics |-> "none",
     decision |-> "none", baseline_config |-> "none", overrides |-> "none",
     applied_actions |-> << >>, config_after |-> "none", result |-> "none"]

AgReturn(a, applied, applied_actions) ==
    [a EXCEPT !.phase = "returned", !.files = @ \cup {<<"", "agentic_summary.md">>},
              !.result = [applied |-> applied, applied_actions |-> applied_actions]]

\* Observe: run_demo(base_config, seed, baseline_dir).
run_agentic_demo_baseline ==
    /\ ag.phase = "called"
    /\ IF RunDemoRuns(ag.base_config)
       THEN \E table \in KpiTables :
               ag' = [ag EXCEPT !.phase = "diagnose", !.calls = Append(@, "run_demo"),
                                !.files = @ \cup RunDemoFiles("baseline"),
                                !.table = table]
       ELSE ag' = [ag EXCEPT !.phase = "raised", !.calls = Append(@, "run_demo")]
    /\ UNCHANGED <<simVars, ov, tas, rt, ves>>

\* Diagnose: diagnose_kpis_path(baseline_dir / "kpis.csv").
run_agentic_demo_diagnose ==
    /\ ag.phase = "diagnose"
    /\ ag' = [ag EXCEPT !.phase = "decide", !.calls = Append(@, "diagnose_kpis_path"),
                        !.diagnostics = diagnose_kpis_path(ag.table)]
    /\ UNCHANGED <<simVars, ov, tas, rt, ves>>

\* Decide: recommend, decision.json, and the confidence gate.
run_agentic_demo_decide ==
    /\ ag.phase = "decide"
    /\ LET decision == recommend(ag.diagnostics, ag.max_actions, MAX_TOTAL_DELTA_DEFAULT)
           a == [ag EXCEPT !.calls = Append(@, "recommend"),
                           !.files = @ \cup {<<"", "decision.json">>},
                           !.decision = decision]
       IN  ag' = IF ag.diagnostics.confidence < 50
                 THEN AgReturn(a, FALSE, << >>)
                 ELSE [a EXCEPT !.phase = "apply",
                                !.baseline_config = ConfigUsed(ag.base_config)]
    /\ UNCHANGED <<simVars, ov, tas, rt, ves>>

\* Apply: apply_actions, then overrides.json and config_after, or the
\* return when nothing is to be applied.
run_agentic_demo_apply ==
    /\ ag.phase = "apply"
    /\ LET r == apply_actions(ag.baseline_config, ag.decision.recommended_actions,
                              ag.max_actions, MAX_TOTAL_DELTA_DEFAULT)
           a == [ag EXCEPT !.calls = Append(@, "apply_actions")]
       IN  ag' = IF r.raised THEN [a EXCEPT !.phase = "raised"]
                 ELSE IF DOMAIN r.overrides = {} THEN AgReturn(a, FALSE, r.applied)
                 ELSE [a EXCEPT !.phase = "rerun",
                                !.files = @ \cup {<<"", "overrides.json">>},
                                !.overrides = r.overrides,
                                !.applied_actions = r.applied,
                                !.config_after = DictUpdate(ag.baseline_config, r.overrides)]
    /\ UNCHANGED <<simVars, ov, tas, rt, ves>>

\* Re-run: run_demo(config_after, seed, after_dir).
run_agentic_demo_rerun ==
    /\ ag.phase = "rerun"
    /\ ag' = IF RunDemoRuns(ag.config_after)
             THEN [ag EXCEPT !.phase = "compare", !.calls = Append(@, "run_demo"),
                             !.files = @ \cup RunDemoFiles("after")]
             ELSE [ag EXCEPT !.phase = "raised", !.calls = Append(@, "run_demo")]
    /\ UNCHANGED <<simVars, ov, tas, rt, ves>>

\* Compare: compare_kpis, comparison.json, comparison.csv, the summary and
\* the return.
run_agentic_demo_compare ==
    /\ ag.phase = "compare"
    /\ ag' = AgReturn([ag EXCEPT !.calls = Append(@, "compare_kpis"),
                                 !.files = @ \cup {<<"", "comparison.json">>,
                                                   <<"", "comparison.csv">>}],
                      TRUE, ag.applied_actions)
    /\ UNCHANGED <<simVars, ov, tas, rt, ves>>

InitAgent ==
    /\ SimIdle
    /\ cfg = DemoBase
    /\ ov = OvIdle /\ tas = TasIdle /\ rt = RtIdle /\ ves = VesIdle
    /\ \E base_config \in AgBaseConfigs, max_actions \in 0 .. MaxActionsArg :
          ag = AgCalled(base_config, max_actions)

NextAgent ==
    \/ run_agentic_demo_baseline
    \/ run_agentic_demo_diagnose
    \/ run_agentic_demo_decide
    \/ run_agentic_demo_apply
    \/ run_agentic_demo_rerun
    \/ run_agentic_demo_compare

SpecAgent == InitAgent /\ [][NextAgent]_vars

\* The 'after' simulation has been started.
AfterRunStarted == ag.phase \in {"compare", "returned"} /\ Len(ag.calls) >= 5

\* C15 as stated: when the 'after' simulation is run, apply_overrides has
\* been called on the agent's overrides.
C15_OverridesValidatedBeforeRerun ==
    AfterRunStarted =>
        \E i \in 1 .. Len(ag.calls) :
            /\ ag.calls[i] = "apply_overrides"
            /\ \A j \in 1 .. i : ag.calls[j] = "run_demo" => j = 1


\* C22: a diagnosis with a confidence below 0.5 gets a decision without
\* recommended actions, and the run returns after the decision and the
\* summary with applied = false: no 'after' simulation, no overrides.json.
C22_LowConfidenceMeansNoChange ==
    (ag.phase # "idle" /\ Len(ag.calls) >= 2 /\ ag.diagnostics.confidence < 50) =>
        /\ ag.phase \in {"decide", "returned"}
        /\ ag.phase = "returned" =>
              /\ ag.decision.recommended_actions = << >>
              /\ ag.result.applied = FALSE
              /\ ag.calls = << "run_demo", "diagnose_kpis_path", "recommend" >>
              /\ {<<"", "decision.json">>, <<"", "agentic_summary.md">>} \subseteq ag.files
              /\ ag.files \cap ({<<"", "overrides.json">>, <<"", "comparison.json">>}
                                \cup RunDemoFiles("after")) = {}

\* A run has returned on a table with rows and total_time whose confidence
\* is below 0.5 although its top stage has an action.
C22_Witness ==
    /\ ag.phase = "returned"
    /\ ag.diagnostics.confidence > 0 /\ ag.diagnostics.confidence < 50
    /\ Len(ag.decision.top_bottlenecks) > 0
    /\ ACTION_MAP[ag.decision.top_bottlenecks[1].stage] # << >>

\* The stages of run_agentic_demo, by the call each one makes.
AgStages ==
    << "run_demo", "diagnose_kpis_path", "recommend", "apply_actions", "run_demo", "compare_kpis" >>

AgBaselineArtifacts == {<<"baseline", "metadata.json">>, <<"baseline", "kpis.csv">>}

AgAfterArtifacts == {<<"after", "metadata.json">>, <<"after", "kpis.csv">>}

\* C16: the calls of run_agentic_demo come in the order baseline run,
\* diagnose, decide, apply, re-run, compare; a run that returns has written
\* the baseline artifacts and decision.json; a run that returns applied =
\* true has written the after-run artifacts and comparison.json, had a
\* confidence of at least 0.5 and a non-empty override set.
C16_StagesInOrderAndArtifactsWritten ==
    /\ Len(ag.calls) <= Len(AgStages)
    /\ ag.calls = SubSeq(AgStages, 1, Len(ag.calls))
    /\ ag.phase = "returned" =>
          /\ AgBaselineArtifacts \cup {<<"", "decision.json">>} \subseteq ag.files
          /\ ag.result.applied =>
                /\ AgAfterArtifacts \cup {<<"", "comparison.json">>} \subseteq ag.files
                /\ ag.calls = AgStages
                /\ ag.diagnostics.confidence >= 50
                /\ DOMAIN ag.overrides # {}
          /\ ~ag.result.applied => AgAfterArtifacts \cap ag.files = {}

C16_Witness ==
    /\ ag.phase = "returned"
    /\ ag.result.applied
    /\ Len(ag.result.applied_actions) = 2
    /\ ag.diagnostics.confidence < 100


-----------------------------------------------------------------------------
(* recommend and apply_actions called on their own, with any limits.       *)

\* Largest max_total_delta argument of the model.
MaxTotalDeltaArg == 2

\* The stage rankings handed to recommend.
GrRankings ==
    { << >>,
      << Ranking("scan_wait", 50), Ranking("loading_wait", 30) >>,
      << Ranking("loading_wait", 10), Ranking("scan_wait", 40), Ranking("gate_wait", 20),
         Ranking("ready_to_pickup_wait", 30) >>,
      << Ranking("yard_to_scan_wait", 30), Ranking("yard_to_truck_wait", 30),
         Ranking("yard_equipment_wait", 20) >>,
      << Ranking("pre_pickup_wait", 60), Ranking("scan_wait", None), Ranking("gate_wait", 20) >>,
      << Ranking("scan_wait", 20), Ranking("gate_wait", 20), Ranking("loading_wait", 20),
         Ranking("ready_to_pickup_wait", 20) >> }

\* A recommended action as apply_actions reads it.
GrAction(param, delta, min, max) ==
    [stage |-> "scan_wait", param |-> param, delta |-> delta, min |-> min, max |-> max]

\* The recommended actions handed to apply_actions: well-formed ones, and
\* one for each way an action can be refused.
GrActions ==
    { GrAction("num_scanners", 1, 1, 10), GrAction("num_loaders", 1, None, None),
      GrAction("num_gate_in", 0, 1, 10),
      GrAction("num_scanners", 0 - 1, 1, 10), GrAction("num_loaders", 2, 1, 10),
      GrAction("num_berths", 1, 1, 10), GrAction("num_gate_out", 1, 1, 10),
      GrAction("num_cranes", 1, 1, 10), GrAction("num_gate_in", 1, 3, 10) }

\* The action lists handed to apply_actions, up to two actions long.
GrActionLists ==
    {<< >>} \cup {<< a >> : a \in GrActions} \cup {<< a, b >> : a, b \in GrActions}

\* A baseline config with a float, a full and a boolean resource value.
GrBaseline ==
    [AgDemoDict EXCEPT !["num_gate_out"] = Val("float", 2), !["num_cranes"] = Val("int", 10),
                       !["yard_equipment_capacity"] = Val("bool", 1)]

recommend_call ==
    /\ ag.phase = "recommend_called"
    /\ ag' = [ag EXCEPT !.phase = "recommend_returned",
                        !.decision = recommend(ag.diagnostics, ag.max_actions,
                                               ag.max_total_delta)]
    /\ UNCHANGED <<simVars, ov, tas, rt, ves>>

apply_actions_call ==
    /\ ag.phase = "apply_called"
    /\ LET r == apply_actions(ag.baseline_config, ag.recommended_actions, ag.max_actions,
                              ag.max_total_delta)
       IN  ag' = [ag EXCEPT !.phase = IF r.raised THEN "apply_raised" ELSE "apply_returned",
                            !.error = r.error, !.overrides = r.overrides,
                            !.applied = r.applied]
    /\ UNCHANGED <<simVars, ov, tas, rt, ves>>

InitGuardrails ==
    /\ SimIdle
    /\ cfg = DemoBase
    /\ ov = OvIdle /\ tas = TasIdle /\ rt = RtIdle /\ ves = VesIdle
    /\ \E max_actions \in 0 .. MaxActionsArg, max_total_delta \in 0 .. MaxTotalDeltaArg :
          \/ \E confidence \in {44, 50, 100}, rankings \in GrRankings :
                ag = [phase |-> "recommend_called", max_actions |-> max_actions,
                      max_total_delta |-> max_total_delta,
                      diagnostics |-> [confidence |-> confidence,
                                       stage_rankings |-> rankings],
                      decision |-> [confidence |-> 0, top_bottlenecks |-> << >>,
                                    recommended_actions |-> << >>]]
          \/ \E actions \in GrActionLists :
                ag = [phase |-> "apply_called", max_actions |-> max_actions,
                      max_total_delta |-> max_total_delta,
                      baseline0 |-> GrBaseline, baseline_config |-> GrBaseline,
                      recommended_actions |-> actions,
                      error |-> "", overrides |-> EmptyDict, applied |-> << >>]

NextGuardrails ==
    \/ recommend_call
    \/ apply_actions_call

SpecGuardrails == InitGuardrails /\ [][NextGuardrails]_vars

RECURSIVE SumDelta(_)
SumDelta(actions) == IF actions = << >> THEN 0 ELSE Head(actions).delta + SumDelta(Tail(actions))

\* The stages of the three rows of largest contribution.
ThreeHighestStages(rankings) ==
    {rankings[i].stage : i \in {i \in 1 .. Len(rankings) :
        /\ rankings[i].contribution # None
        /\ Cardinality({j \in 1 .. Len(rankings) :
              /\ rankings[j].contribution # None
              /\ \/ rankings[j].contribution > rankings[i].contribution
                 \/ rankings[j].contribution = rankings[i].contribution /\ j < i}) < 3}}

\* What recommend promises of its recommended actions, but for their number.
RecommendedWithinGuardrails ==
    LET recs == ag.decision.recommended_actions
    IN  /\ \A i, j \in 1 .. Len(recs) : i # j => recs[i].param # recs[j].param
        /\ SumDelta(recs) <= ag.max_total_delta
        /\ \A i \in 1 .. Len(recs) :
              /\ recs[i].stage \in ThreeHighestStages(ag.diagnostics.stage_rankings)
              /\ \E k \in 1 .. Len(ACTION_MAP[recs[i].stage]) :
                    ACTION_MAP[recs[i].stage][k] = recs[i]

\* C21 as stated: recommend returns at most max_actions recommended actions,
\* no two on the same parameter, with deltas that sum to at most
\* max_total_delta, all from the action lists of the three stages of
\* largest contribution.
C21_RecommendWithinGuardrails ==
    ag.phase = "recommend_returned" =>
        /\ Len(ag.decision.recommended_actions) <= ag.max_actions
        /\ RecommendedWithinGuardrails

\* The part of C21 that holds: for max_actions of at least 1 the number of
\* recommended actions is capped, and the other guardrails hold always.
RecommendWithinGuardrailsFromOne ==
    ag.phase = "recommend_returned" =>
        /\ ag.max_actions >= 1 => Len(ag.decision.recommended_actions) <= ag.max_actions
        /\ Len(ag.decision.recommended_actions) <= Max(1, ag.max_actions)
        /\ RecommendedWithinGuardrails

\* The action the loop of apply_actions stopped at, if it stopped early.
NextAction == ag.recommended_actions[Len(ag.applied) + 1]

\* An action apply_actions refuses whatever the limits.
Refused(a, baseline_config) ==
    \/ a.delta < 0 \/ a.delta > 1
    \/ a.param \notin DOMAIN baseline_config
    \/ ~IsInstance(baseline_config[a.param], "int")
    \/ a.min # None /\ baseline_config[a.param].v + a.delta < a.min
    \/ a.max # None /\ baseline_config[a.param].v + a.delta > a.max

\* C23: when apply_actions returns, at most max_actions actions are applied,
\* their deltas are 0 or 1 and sum to at most max_total_delta, every
\* override is the baseline value plus the delta and within the action's
\* bounds, and the baseline config is as it was; no refused action is
\* applied, the actions are applied in list order, and the call raises
\* when the action it gets to has a negative delta, a delta above 1, a
\* parameter missing from the baseline, a non-integer baseline value or a
\* value out of its bounds.
C23_ApplyActionsWithinGuardrails ==
    /\ ag.phase \in {"apply_returned", "apply_raised"} => ag.baseline_config = ag.baseline0
    /\ ag.phase = "apply_returned" =>
          /\ Len(ag.applied) <= ag.max_actions
          /\ SumDelta(ag.applied) <= ag.max_total_delta
          /\ Len(ag.applied) <= Len(ag.recommended_actions)
          /\ \A i \in 1 .. Len(ag.applied) :
                LET a == ag.recommended_actions[i]
                    e == ag.applied[i]
                IN  /\ e.param = a.param /\ e.delta = a.delta
                    /\ e.delta \in {0, 1}
                    /\ ~Refused(a, ag.baseline0)
                    /\ e.baseline = ag.baseline0[a.param].v
                    /\ e.applied = e.baseline + e.delta
                    /\ a.min # None => e.applied >= a.min
                    /\ a.max # None => e.applied <= a.max
                    /\ a.param \in DOMAIN ag.overrides
          /\ \A param \in DOMAIN ag.overrides :
                \E i \in 1 .. Len(ag.applied) :
                    /\ ag.applied[i].param = param
                    /\ ag.overrides[param] = Val("int", ag.applied[i].applied)
          /\ Len(ag.applied) < Len(ag.recommended_actions) =>
                \/ Len(ag.applied) >= ag.max_actions
                \/ /\ NextAction.delta \in {0, 1}
                   /\ SumDelta(ag.applied) + NextAction.delta > ag.max_total_delta
    /\ ag.phase = "apply_raised" =>
          /\ \E i \in 1 .. Len(ag.recommended_actions) :
                /\ Refused(ag.recommended_actions[i], ag.baseline0)
                /\ i <= ag.max_actions
                /\ \A j \in 1 .. (i - 1) : ~Refused(ag.recommended_actions[j], ag.baseline0)
          /\ ag.overrides = EmptyDict /\ ag.applied = << >>

\* A call with room for two actions has applied one action, raising the
\* value from 1 to 2, and stopped at a second, well-formed one for the
\* total delta.
C23_Witness ==
    /\ ag.phase = "apply_returned"
    /\ ag.max_actions = 2
    /\ Len(ag.applied) = 1 /\ Len(ag.recommended_actions) = 2
    /\ ag.applied[1].delta = 1
    /\ ag.applied[1].applied = 2
    /\ ~Refused(NextAction, ag.baseline0)

-----------------------------------------------------------------------------
(* metrics_to_dataframe(metrics_list) on metrics lists of any shape: the   *)
(* records hold some of the timestamp keys, with or without exit_time.     *)

\* Longest metrics list of the model.
MaxMetricsLen == 2

\* The key sets of the records.
MetricKeySets ==
    { {"arrival_time", "yard_entry_time", "yard_exit_time", "exit_time",
       "yard_to_truck_queue_enter", "yard_to_truck_start", "loading_queue_enter",
       "loading_start"},
      {"arrival_time", "yard_entry_time", "yard_exit_time", "exit_time",
       "pickup_request_time", "yard_to_scan_queue_enter", "yard_to_scan_start",
       "scan_queue_enter", "scan_start", "ready_time", "pickup_time", "gate_queue_enter",
       "gate_start"},
      {"arrival_time", "yard_entry_time", "scan_queue_enter", "scan_start"},
      {"exit_time"},
      {"exit_time", "arrival_time", "scan_start", "yard_to_scan_start", "gate_queue_enter"},
      {"exit_time", "yard_entry_time", "yard_to_truck_queue_enter", "pickup_time"} }

\* The keys a difference starts from.
StartKeys ==
    { "arrival_time", "yard_entry_time", "scan_queue_enter", "yard_to_scan_queue_enter",
      "yard_to_truck_queue_enter", "ready_time", "loading_queue_enter", "gate_queue_enter" }

\* The values of a record: in order of time, or the start after the end.
MetricValue(key, inOrder) ==
    IF key \in StartKeys THEN (IF inOrder THEN 1 ELSE 5) ELSE (IF inOrder THEN 4 ELSE 2)

MetricRecord(id, keys, inOrder) ==
    [container_id |-> id, flow_type |-> "IMPORT", teu_size |-> 1,
     t |-> [f \in TsFields |-> IF f \in keys THEN MetricValue(f, inOrder) ELSE None]]

InitMetrics ==
    /\ phase = "frame_called"
    /\ now = 0
    /\ queue = <<>>
    /\ res = [r \in UnitResources |-> [capacity |-> 0, users |-> {}, queue |-> <<>>]]
    /\ yard = [capacity |-> 0, level |-> 0, putq |-> <<>>, getq |-> <<>>]
    /\ store = [items |-> <<>>, getq |-> <<>>]
    /\ pc = [p \in Procs |-> "none"]
    /\ loc = [p \in Procs |-> NoLoc]
    /\ ts = [c \in Containers |-> EmptyTs]
    /\ tm = [k \in TruckProcs |-> EmptyTm]
    /\ stats = NoStats
    /\ df = EmptyFrame
    /\ cfg = DemoBase
    /\ ov = OvIdle /\ tas = TasIdle /\ ag = AgIdle /\ rt = RtIdle /\ ves = VesIdle
    /\ \E n \in 0 .. MaxMetricsLen :
          \E shape \in [1 .. n -> MetricKeySets \X BOOLEAN] :
             metrics = [i \in 1 .. n |-> MetricRecord(i, shape[i][1], shape[i][2])]

metrics_to_dataframe_call ==
    /\ phase = "frame_called"
    /\ phase' = "frame_done"
    /\ df' = metrics_to_dataframe(metrics)
    /\ UNCHANGED <<cfg, now, queue, res, yard, store, pc, loc, ts, tm, metrics, stats,
                   ov, tas, ag, rt, ves>>

NextMetrics == metrics_to_dataframe_call

SpecMetrics == InitMetrics /\ [][NextMetrics]_vars

\* The differences of the table: derived column, end column, start column.
DiffTable ==
    { <<"total_time", "exit_time", "arrival_time">>,
      <<"yard_dwell", "yard_exit_time", "yard_entry_time">>,
      <<"dwell_terminal", "exit_time", "yard_entry_time">>,
      <<"scan_wait", "scan_start", "scan_queue_enter">>,
      <<"yard_to_scan_wait", "yard_to_scan_start", "yard_to_scan_queue_enter">>,
      <<"yard_to_truck_wait", "yard_to_truck_start", "yard_to_truck_queue_enter">>,
      <<"ready_to_pickup_wait", "pickup_time", "ready_time">>,
      <<"loading_wait", "loading_start", "loading_queue_enter">>,
      <<"gate_wait", "gate_start", "gate_queue_enter">>,
      <<"pre_pickup_wait", "pickup_request_time", "yard_entry_time">> }

HasExitTime(m) == m.t["exit_time"] # None

\* The records of the metrics list that hold exit_time, in list order.
WithExitTime == SelectSeq(metrics, HasExitTime)

\* The keys some record with exit_time holds.
SourceColumns == {f \in TsFields : \E i \in 1 .. Len(WithExitTime) : WithExitTime[i].t[f] # None}

\* max(0, end - start) on a row; NaN where the row lacks one of the two.
ExpectedDiff(row, end_col, start_col) ==
    IF row.t[end_col] = None \/ row.t[start_col] = None THEN None
    ELSE IF row.t[end_col] - row.t[start_col] > 0 THEN row.t[end_col] - row.t[start_col]
    ELSE 0

ZeroIfAbsent(x) == IF x = None THEN 0 ELSE x

\* C17: the table of metrics_to_dataframe has one row per record with
\* exit_time, in order; it has the derived column new exactly when both of
\* its source columns exist, with max(0, end - start) in it; it has
\* yard_equipment_wait exactly when yard_to_scan_wait or yard_to_truck_wait
\* exists, equal to their sum with an absent value counted as 0.
C17_DerivedColumnsWhenSourcesExist ==
    phase = "frame_done" =>
        /\ Len(df.rows) = Len(WithExitTime)
        /\ \A i \in 1 .. Len(df.rows) :
              /\ df.rows[i].container_id = WithExitTime[i].container_id
              /\ \A f \in TsFields : df.rows[i].v[f] = WithExitTime[i].t[f]
        /\ \A d \in DiffTable :
              /\ d[1] \in df.columns <=> (d[2] \in SourceColumns /\ d[3] \in SourceColumns)
              /\ d[1] \in df.columns =>
                    \A i \in 1 .. Len(df.rows) :
                        df.rows[i].v[d[1]] = ExpectedDiff(WithExitTime[i], d[2], d[3])
        /\ "yard_equipment_wait" \in df.columns <=>
              ("yard_to_scan_wait" \in df.columns \/ "yard_to_truck_wait" \in df.columns)
        /\ "yard_equipment_wait" \in df.columns =>
              \A i \in 1 .. Len(df.rows) :
                  df.rows[i].v["yard_equipment_wait"] =
                      ZeroIfAbsent(df.rows[i].v["yard_to_scan_wait"])
                      + ZeroIfAbsent(df.rows[i].v["yard_to_truck_wait"])

\* A list with a record without exit_time gave a table that has one of the
\* two yard-equipment waits but not the other, a clipped difference and a
\* difference left out for want of its start column.
C17_Witness ==
    /\ phase = "frame_done"
    /\ Len(df.rows) = 1 /\ Len(metrics) = 2
    /\ "yard_to_truck_wait" \in df.columns /\ "yard_to_scan_wait" \notin df.columns
    /\ df.rows[1].v["yard_equipment_wait"] = 3
    /\ df.rows[1].v["total_time"] = 3
    /\ "scan_wait" \notin df.columns


-----------------------------------------------------------------------------
(* scenario_to_dict and scenario_from_dict.  The heap is a sequence of     *)
(* objects, a reference its index: a ScenarioConfig and a dict hold a      *)
(* value per key, a list holds its items; a value is a scalar or a tuple   *)
(* [type, v], or a reference Val("ref", r) to a list.                      *)

\* The list-valued fields of ScenarioConfig, in dataclass order.
ListFields == << "import_dwell_bands", "transship_dwell_bands", "hourly_truck_teu_rate" >>

\* A converter that turns tuples into lists, as a JSON round trip does.
_asdict_inner_json(value) ==
    IF value.type = "tuple" THEN Val("list", value.v) ELSE value

\* dataclasses._asdict_inner on a value that is no list: a tuple is rebuilt
\* from copies of its items, anything else is deep-copied.
_asdict_inner(value) ==
    IF value.type = "tuple" THEN Val("tuple", [j \in 1 .. Len(value.v) |-> value.v[j]])
    ELSE value

\* asdict over the fields from list field n on: every list is copied into a
\* new list object.
RECURSIVE AsDictLists(_, _, _)
AsDictLists(heap, items, n) ==
    IF n > Len(ListFields) THEN [heap |-> heap, items |-> items]
    ELSE LET key == ListFields[n]
         IN  IF key \in DOMAIN items /\ items[key].type = "ref"
             THEN LET old == heap[items[key].v]
                      new == [kind |-> "list",
                              items |-> [j \in 1 .. Len(old.items) |->
                                            _asdict_inner(old.items[j])]]
                  IN  AsDictLists(Append(heap, new),
                                  [items EXCEPT ![key] = Val("ref", Len(heap) + 1)], n + 1)
             ELSE AsDictLists(heap, items, n + 1)

\* asdict(config): a new dict with a copy of every field.
asdict(heap, c) ==
    LET scalars == [k \in DOMAIN heap[c].items |->
                       IF heap[c].items[k].type = "ref" THEN heap[c].items[k]
                       ELSE _asdict_inner(heap[c].items[k])]
        r == AsDictLists(heap, scalars, 1)
    IN  [heap |-> Append(r.heap, [kind |-> "dict", items |-> r.items]),
         ref |-> Len(r.heap) + 1]

\* The value of a field as == compares it: a list by its items.
DeepValue(heap, value) ==
    IF value.type = "ref" THEN Val("list", heap[value.v].items) ELSE value

\* The dataclass __eq__ of two ScenarioConfig objects.
ConfigEq(heap, a, b) ==
    /\ heap[a].kind = "config" /\ heap[b].kind = "config"
    /\ DOMAIN heap[a].items = DOMAIN heap[b].items
    /\ \A k \in DOMAIN heap[a].items :
          DeepValue(heap, heap[a].items[k]) = DeepValue(heap, heap[b].items[k])

Band3(lo, hi, p) == Val("tuple", << Val("int", lo), Val("int", hi), Val("float", p) >>)

\* The band lists and rate lists of the configs of the model.
RtBandLists ==
    { << >>, << Band3(10, 30, 100) >>, << Band3(10, 30, 35), Band3(30, 60, 65) >> }

RtRateLists == { << Val("int", 2), Val("int", 3) >>, << Val("float", 2) >> }

\* A heap with one ScenarioConfig (reference 4) and its three lists.
RtHeap(name, demo, cranes, bands, rates) ==
    << [kind |-> "list", items |-> bands],
       [kind |-> "list", items |-> << Band3(5, 20, 100) >>],
       [kind |-> "list", items |-> rates],
       [kind |-> "config",
        items |-> [k \in SCENARIO_KEYS |->
                      CASE k = "name" -> Val("str", name)
                        [] k = "description" -> Val("str", 0)
                        [] k = "demo" -> Val("bool", demo)
                        [] k = "num_cranes" -> Val("int", cranes)
                        [] k = "import_dwell_bands" -> Val("ref", 1)
                        [] k = "transship_dwell_bands" -> Val("ref", 2)
                        [] k = "hourly_truck_teu_rate" -> Val("ref", 3)
                        [] k \in RESOURCE_KEYS \cup {"sim_time_mins", "max_dwell_mins",
                                 "post_process_buffer_mins", "yard_capacity",
                                 "truck_capacity_teu"} -> Val("int", 2)
                        [] OTHER -> Val("float", 1)]] >>

RtCalled(heap) ==
    [phase |-> "called", heap0 |-> heap, heap |-> heap, c |-> Len(heap), d |-> 0, c2 |-> 0]

\* d = scenario_to_dict(c)
scenario_to_dict ==
    /\ rt.phase = "called"
    /\ LET r == asdict(rt.heap, rt.c)
       IN  rt' = [rt EXCEPT !.phase = "dict", !.heap = r.heap, !.d = r.ref]
    /\ UNCHANGED <<simVars, ov, tas, ag, ves>>

\* c2 = scenario_from_dict(d): ScenarioConfig(**d) takes the values of the
\* dict as they are, and raises unless the keys are the fields.
scenario_from_dict ==
    /\ rt.phase = "dict"
    /\ rt' = IF DOMAIN rt.heap[rt.d].items = SCENARIO_KEYS
             THEN [rt EXCEPT !.phase = "config",
                             !.heap = Append(@, [kind |-> "config",
                                                 items |-> rt.heap[rt.d].items]),
                             !.c2 = Len(rt.heap) + 1]
             ELSE [rt EXCEPT !.phase = "raised"]
    /\ UNCHANGED <<simVars, ov, tas, ag, ves>>

InitRoundTrip ==
    /\ SimIdle
    /\ cfg = DemoBase
    /\ ov = OvIdle /\ tas = TasIdle /\ ag = AgIdle /\ ves = VesIdle
    /\ \E name \in {0, 1}, demo \in {0, 1}, cranes \in {1, 2},
          bands \in RtBandLists, rates \in RtRateLists :
          rt = RtCalled(RtHeap(name, demo, cranes, bands, rates))

NextRoundTrip ==
    \/ scenario_to_dict
    \/ scenario_from_dict

SpecRoundTrip == InitRoundTrip /\ [][NextRoundTrip]_vars

\* The objects the config c reaches are what they were at the call.
RtConfigUnchanged ==
    \A r \in 1 .. Len(rt.heap0) : rt.heap[r] = rt.heap0[r]

\* C18: the dict of scenario_to_dict(c) has exactly the keys SCENARIO_KEYS,
\* scenario_from_dict of it equals c, and c and its lists are not changed.
C18_ScenarioRoundTrip ==
    /\ rt.phase \in {"dict", "config"} =>
          /\ DOMAIN rt.heap[rt.d].items = SCENARIO_KEYS
          /\ RtConfigUnchanged
    /\ rt.phase # "raised"
    /\ rt.phase = "config" =>
          /\ ConfigEq(rt.heap, rt.c2, rt.c)
          /\ rt.c2 # rt.c
          /\ RtConfigUnchanged

\* A round trip of a config with two import bands is through, and the
\* dict holds its own list of them.
C18_Witness ==
    /\ rt.phase = "config"
    /\ Len(rt.heap[rt.heap[rt.c].items["import_dwell_bands"].v].items) = 2
    /\ rt.heap[rt.d].items["import_dwell_bands"] # rt.heap[rt.c].items["import_dwell_bands"]
    /\ rt.heap[rt.c2].items["import_dwell_bands"] = rt.heap[rt.d].items["import_dwell_bands"]


-----------------------------------------------------------------------------
(* get_scenario(name, demo).  A str is the sequence of its characters;     *)
(* floats are held in hundredths.  rt holds the call: its arguments, and   *)
(* the config it returned or that it raised.                               *)

Letters ==
    << "a", "b", "c", "d", "e", "f", "g", "h", "i", "j", "k", "l", "m",
       "n", "o", "p", "q", "r", "s", "t", "u", "v", "w", "x", "y", "z" >>

Capitals ==
    << "A", "B", "C", "D", "E", "F", "G", "H", "I", "J", "K", "L", "M",
       "N", "O", "P", "Q", "R", "S", "T", "U", "V", "W", "X", "Y", "Z" >>

Whitespace == {" ", "\t", "\n"}

\* str.lower(): every capital becomes its small letter.
LowerChar(ch) ==
    IF \E i \in 1 .. 26 : Capitals[i] = ch
    THEN Letters[CHOOSE i \in 1 .. 26 : Capitals[i] = ch]
    ELSE ch

lower(s) == [i \in 1 .. Len(s) |-> LowerChar(s[i])]

\* A strip that trims the front of the string only.
strip_leading(s) ==
    LET inside == {i \in 1 .. Len(s) : s[i] \notin Whitespace}
    IN  IF inside = {} THEN << >>
        ELSE SubSeq(s, CHOOSE i \in inside : \A j \in inside : i <= j, Len(s))

\* str.strip(): the string without its leading and trailing whitespace.
strip(s) ==
    LET inside == {i \in 1 .. Len(s) : s[i] \notin Whitespace}
    IN  IF inside = {} THEN << >>
        ELSE SubSeq(s, CHOOSE i \in inside : \A j \in inside : i <= j,
                       CHOOSE i \in inside : \A j \in inside : i >= j)

NameBaseline == << "b", "a", "s", "e", "l", "i", "n", "e" >>
NameImproved == << "i", "m", "p", "r", "o", "v", "e", "d" >>

\* _demo_base(): the baseline demo scenario.
_demo_base ==
    [ name |-> NameBaseline, description |-> "baseline", demo |-> TRUE,
      sim_time_mins |-> 8 * 60, max_dwell_mins |-> 4 * 60,
      post_process_buffer_mins |-> 2 * 60,
      p_import |-> 60, p_export |-> 20, p_transship |-> 20, pct_40ft |-> 30,
      num_cranes |-> 2, yard_capacity |-> 250, yard_equipment_capacity |-> 5,
      num_scanners |-> 1, num_loaders |-> 2, num_gate_in |-> 1, num_gate_out |-> 1,
      crane_moves_per_hour |-> 3000, scan_time_mins |-> 500,
      yard_move_min |-> 200, yard_move_mode |-> 300, yard_move_max |-> 600,
      yard_occ_threshold |-> 80, rehandle_alpha |-> 125,
      loading_time_min |-> 600, loading_time_mode |-> 1000, loading_time_max |-> 1800,
      gate_in_time_min |-> 50, gate_in_time_mode |-> 100, gate_in_time_max |-> 200,
      gate_out_time_min |-> 50, gate_out_time_mode |-> 100, gate_out_time_max |-> 200,
      offset_after_discharge_mins |-> 1000,
      import_dwell_bands |-> << Band(10, 30, 35), Band(30, 60, 35),
                                Band(60, 120, 25), Band(120, 180, 5) >>,
      transship_dwell_bands |-> << Band(5, 20, 50), Band(20, 40, 30), Band(40, 90, 20) >>,
      export_dwell_min |-> 2000, export_dwell_max |-> 12000,
      ship_interarrival_mean_mins |-> 600, export_interarrival_mean_mins |-> 1200,
      hourly_truck_teu_rate |-> << 2, 2, 2, 2, 3, 4, 5, 6, 7, 7, 7, 6,
                                   6, 6, 6, 6, 6, 5, 4, 3, 3, 3, 2, 2 >>,
      truck_capacity_teu |-> 2 ]

\* get_scenario(name, demo): the config returned, or a ValueError.
get_scenario(name, demo) ==
    IF ~demo THEN [raised |-> TRUE]
    ELSE LET n == strip(lower(name))
             base == _demo_base
         IN  IF n \notin {NameBaseline, NameImproved} THEN [raised |-> TRUE]
             ELSE IF n = NameBaseline THEN [raised |-> FALSE, value |-> base]
             ELSE [raised |-> FALSE,
                   value |-> [base EXCEPT
                                 !.name = NameImproved,
                                 !.description = "improved",
                                 !.num_scanners = base.num_scanners + 1,
                                 !.num_loaders = base.num_loaders + 1,
                                 !.yard_equipment_capacity = base.yard_equipment_capacity + 1,
                                 !.num_gate_out = base.num_gate_out + 1]]

\* The names a caller passes: a scenario name or another word, in small
\* letters, capitals or capitalised, with or without whitespace around it.
ScenarioWords ==
    { NameBaseline, NameImproved, << "b", "a", "s", "e" >>,
      << "b", "a", "s", "e", " ", "l", "i", "n", "e" >>, << >> }

Padding == { << >>, << " " >>, << "\t", "\n" >> }

UpperChar(ch) ==
    IF \E i \in 1 .. 26 : Letters[i] = ch
    THEN Capitals[CHOOSE i \in 1 .. 26 : Letters[i] = ch]
    ELSE ch

Cased(word, style) ==
    [i \in 1 .. Len(word) |->
        IF style = "upper" \/ (style = "title" /\ i = 1) THEN UpperChar(word[i])
        ELSE word[i]]

ScenarioNameArgs ==
    { before \o Cased(word, style) \o after :
        before \in Padding, after \in Padding, word \in ScenarioWords,
        style \in {"lower", "upper", "title"} }

GetCalled(name, demo) == [phase |-> "get_called", name |-> name, demo |-> demo]

\* The call get_scenario(rt.name, rt.demo).
get_scenario_call ==
    /\ rt.phase = "get_called"
    /\ LET r == get_scenario(rt.name, rt.demo)
       IN  rt' = IF r.raised
                 THEN [phase |-> "get_raised", name |-> rt.name, demo |-> rt.demo]
                 ELSE [phase |-> "get_returned", name |-> rt.name, demo |-> rt.demo,
                       value |-> r.value]
    /\ UNCHANGED <<simVars, ov, tas, ag, ves>>

InitScenario ==
    /\ SimIdle
    /\ cfg = DemoBase
    /\ ov = OvIdle /\ tas = TasIdle /\ ag = AgIdle /\ ves = VesIdle
    /\ \E name \in ScenarioNameArgs, demo \in BOOLEAN : rt = GetCalled(name, demo)

NextScenario == get_scenario_call

SpecScenario == InitScenario /\ [][NextScenario]_vars

\* The string s is the word w in any mix of capitals and small letters,
\* with any whitespace before and after it.
Names(s, w) ==
    \E a \in 0 .. Len(s) :
        /\ a + Len(w) <= Len(s)
        /\ \A i \in 1 .. Len(s) :
              IF i > a /\ i <= a + Len(w)
              THEN s[i] \in {w[i - a], UpperChar(w[i - a])}
              ELSE s[i] \in Whitespace

\* The fields the improved scenario changes.
ImprovedFields ==
    {"name", "description", "num_scanners", "num_loaders",
     "yard_equipment_capacity", "num_gate_out"}

\* C34: get_scenario raises exactly for demo = false or a name that is
\* neither baseline nor improved after lower-casing and trimming; the
\* improved config is the baseline config but for its name, its description
\* and one more scanner, loader, yard equipment unit and gate-out lane.
C34_ImprovedIsBaselinePlusOne ==
    LET baseline == get_scenario(NameBaseline, TRUE).value
    IN  /\ rt.phase = "get_raised" =>
              ~rt.demo \/ (~Names(rt.name, NameBaseline) /\ ~Names(rt.name, NameImproved))
        /\ rt.phase = "get_returned" =>
              /\ rt.demo
              /\ Names(rt.name, NameBaseline) \/ Names(rt.name, NameImproved)
              /\ Names(rt.name, NameBaseline) => rt.value = baseline
              /\ Names(rt.name, NameImproved) =>
                    /\ DOMAIN rt.value = DOMAIN baseline
                    /\ \A k \in DOMAIN baseline \ ImprovedFields : rt.value[k] = baseline[k]
                    /\ rt.value.name = NameImproved /\ baseline.name = NameBaseline
                    /\ rt.value.description # baseline.description
                    /\ rt.value.num_scanners = baseline.num_scanners + 1
                    /\ rt.value.num_loaders = baseline.num_loaders + 1
                    /\ rt.value.yard_equipment_capacity =
                          baseline.yard_equipment_capacity + 1
                    /\ rt.value.num_gate_out = baseline.num_gate_out + 1

\* The improved scenario was returned for a capitalised name with
\* whitespace on both sides.
C34_Witness ==
    /\ rt.phase = "get_returned"
    /\ rt.name # NameImproved /\ Len(rt.name) > Len(NameImproved) + 1
    /\ rt.name[1] \in Whitespace /\ rt.name[Len(rt.name)] \in Whitespace
    /\ \E i \in 1 .. Len(rt.name) : rt.name[i] = "I"
    /\ rt.value.name = NameImproved
    /\ rt.value.num_loaders = 3 /\ rt.value.num_cranes = 2

-----------------------------------------------------------------------------
(* The vessel layer: vessel_arrival_generator, vessel_call_process,        *)
(* _allocate_cranes and _release_cranes over two berth resources and two   *)
(* crane pools.  ves holds the parameters p, the clock, the event queue,   *)
(* the berths res, the pools pool, each process's position pc and each     *)
(* vessel's locals v.  Times are scaled integers.                          *)

\* Most vessel calls of a run.
MaxVessels == 3

VesselIds == 0 .. (MaxVessels - 1)
VesGen == <<"vgen", 0>>
VesselProcs == {<<"V", i>> : i \in VesselIds}
AllocProcs == {<<"A", i>> : i \in VesselIds}
ReleaseProcs == {<<"R", i>> : i \in VesselIds}
VesProcs == {VesGen} \cup VesselProcs \cup AllocProcs \cup ReleaseProcs

Piers == {"Pier 1", "Pier 2"}

\* vessel_params and the arguments of vessel_arrival_generator: berths and
\* crane pool per pier, the gang sizes the samplers can return, the minutes
\* one crane needs per move, and the caller's flags.
VesselParams(berths1, berths2, pool1, pool2, gang1, gang2, anchorage, moves, share) ==
    [PIER1_BERTHS |-> berths1, PIER2_BERTHS |-> berths2,
     PIER1_CRANE_POOL |-> pool1, PIER2_CRANE_POOL |-> pool2,
     MIN_CRANES_PER_VESSEL |-> 2,
     PIER1_GANG |-> gang1, PIER2_GANG |-> gang2,
     crane_minutes_per_move |-> 4, SHIFT_LENGTH_MINS |-> 3,
     SHIFT_CHANGE_HOOK_TIME_MIN |-> 1, SHIFT_CHANGE_HOOK_TIME_MAX |-> 2,
     marine_delay_mins |-> 1, include_marine_delays |-> anchorage,
     enable_anchorage_queue |-> anchorage, moves_per_call |-> moves, import_share |-> share,
     stop_time |-> 4, interarrivals |-> {1, 2}]

\* Two berths against four, as in vessel_params; one berth each with small
\* pools; a gang distribution that reaches below the minimum; no anchorage
\* queue.
VesselParamSets ==
    { VesselParams(2, 4, 7, 15, {2, 4}, {2, 6}, TRUE, 2, None),
      VesselParams(1, 1, 3, 3, {2, 3}, {3}, TRUE, 1, None),
      VesselParams(1, 2, 3, 4, {1, 3}, {1, 3}, TRUE, 2, 50),
      VesselParams(2, 4, 3, 15, {2, 3}, {2}, FALSE, 1, None) }

NoVessel ==
    [pier |-> "", sampled |-> None, cranes_requested |-> None, available |-> None,
     cranes_assigned |-> None, vessel_arrival_time |-> None, berth_start_time |-> None,
     wait_start |-> None, crane_wait |-> None, containers_generated |-> None,
     inter_release_minutes |-> None, service_minutes |-> None, spawned |-> << >>,
     returned |-> FALSE, berth_end_time |-> None]

\* A crane pool holds at least n cranes, whatever its level.
PoolGetFitsAlways(P, n) == TRUE

\* Container._do_get: the pool holds at least n cranes.
PoolGetFits(P, n) == P.level >= n

\* Container._do_put: the pool has room for n more cranes.
PoolPutFits(P, n) == P.capacity - P.level >= n

\* A pool whose waiting gets are never looked at.
TriggerGetPoolNever(K, pier, t) == K

\* Container._trigger_get: the waiting gets are served from the head on.
RECURSIVE TriggerGetPool(_, _, _)
TriggerGetPool(K, pier, t) ==
    IF K.pool[pier].getq = <<>> THEN K
    ELSE LET h == Head(K.pool[pier].getq)
         IN  IF PoolGetFits(K.pool[pier], h.n)
             THEN TriggerGetPool(
                      [K EXCEPT !.pool[pier].level = @ - h.n, !.pool[pier].getq = Tail(@),
                                !.queue = Schedule(@, Ev(t, 1, "pget", h.p, pier, NoItem))],
                      pier, t)
             ELSE K

\* Container._trigger_put: the waiting puts are served from the head on.
RECURSIVE TriggerPutPool(_, _, _)
TriggerPutPool(K, pier, t) ==
    IF K.pool[pier].putq = <<>> THEN K
    ELSE LET h == Head(K.pool[pier].putq)
         IN  IF PoolPutFits(K.pool[pier], h.n)
             THEN TriggerPutPool(
                      [K EXCEPT !.pool[pier].level = @ + h.n, !.pool[pier].putq = Tail(@),
                                !.queue = Schedule(@, Ev(t, 1, "pput", h.p, pier, NoItem))],
                      pier, t)
             ELSE K

\* A put that returns one crane less than it is asked to.
PoolPutOneLess(K, pier, p, n, t) ==
    TriggerPutPool([K EXCEPT !.pool[pier].putq = Append(@, [p |-> p, n |-> n - 1])], pier, t)

\* crane_pool.get(n) and crane_pool.put(n) by process p.
PoolGet(K, pier, p, n, t) ==
    TriggerGetPool([K EXCEPT !.pool[pier].getq = Append(@, [p |-> p, n |-> n])], pier, t)

PoolPut(K, pier, p, n, t) ==
    TriggerPutPool([K EXCEPT !.pool[pier].putq = Append(@, [p |-> p, n |-> n])], pier, t)

\* A process ends: its event resumes the process that yielded it.
ProcessEnds(K, parent, t) ==
    [K EXCEPT !.queue = Schedule(@, Ev(t, 1, "ended", parent, "", NoItem))]

BerthOf(pier) == IF pier = "Pier 1" THEN "berth_pier1" ELSE "berth_pier2"

\* A routing that sends every vessel to Pier 2.
select_pier_second(berths) == "Pier 2"

\* A routing that sends a tie to Pier 2.
select_pier_strict(berths) ==
    LET q1 == Len(berths["berth_pier1"].queue)  n1 == Cardinality(berths["berth_pier1"].users)
        c1 == berths["berth_pier1"].capacity
        q2 == Len(berths["berth_pier2"].queue)  n2 == Cardinality(berths["berth_pier2"].users)
        c2 == berths["berth_pier2"].capacity
    IN  IF c1 > 0 /\ (c2 <= 0 \/ (q1 * c1 + n1) * c2 < (q2 * c2 + n2) * c1)
        THEN "Pier 1" ELSE "Pier 2"

\* select_pier: score = len(queue) + count / capacity, infinite for a
\* resource without capacity; the two quotients are compared exactly.
select_pier(berths) ==
    LET q1 == Len(berths["berth_pier1"].queue)  n1 == Cardinality(berths["berth_pier1"].users)
        c1 == berths["berth_pier1"].capacity
        q2 == Len(berths["berth_pier2"].queue)  n2 == Cardinality(berths["berth_pier2"].users)
        c2 == berths["berth_pier2"].capacity
    IN  IF c2 <= 0 THEN "Pier 1"
        ELSE IF c1 <= 0 THEN "Pier 2"
        ELSE IF (q1 * c1 + n1) * c2 <= (q2 * c2 + n2) * c1 THEN "Pier 1" ELSE "Pier 2"

\* sample_pier1_gang and sample_pier2_gang: the values they can return.
sample_gang(p, pier) == IF pier = "Pier 1" THEN p.PIER1_GANG ELSE p.PIER2_GANG

\* containers_generated of a call; round() takes a half to the even side.
RoundHalfEven(num, den) ==
    LET q == num \div den
        r == num % den
    IN  IF 2 * r < den THEN q ELSE IF 2 * r > den THEN q + 1
        ELSE IF q % 2 = 0 THEN q ELSE q + 1

ContainersGenerated(p) ==
    Max(1, IF p.import_share = None THEN p.moves_per_call
           ELSE RoundHalfEven(p.moves_per_call * p.import_share, 100))

\* 60 / effective rate: the minutes between two releases of a gang.
InterReleaseMinutes(p, cranes_assigned) == Max(1, p.crane_minutes_per_move \div cranes_assigned)

\* estimate_discharge_minutes plus estimate_shift_loss_minutes plus the
\* marine delays: the service minutes a call can have.
ServiceMinutes(p, cranes_assigned) ==
    LET discharge == p.moves_per_call * InterReleaseMinutes(p, cranes_assigned)
        shifts == discharge \div p.SHIFT_LENGTH_MINS
    IN  { discharge + hooks * cranes_assigned
          + (IF p.include_marine_delays THEN p.marine_delay_mins ELSE 0) :
            hooks \in (shifts * p.SHIFT_CHANGE_HOOK_TIME_MIN)
                      .. (shifts * p.SHIFT_CHANGE_HOOK_TIME_MAX) }


\* A leftover wait of the whole service time.
RemainingFullService(service_minutes, release_minutes) == Max(0, service_minutes)

\* remaining = max(0.0, service_minutes - release_minutes)
Remaining(service_minutes, release_minutes) == Max(0, service_minutes - release_minutes)

\* The event being processed by the vessel run, and its shared state.
VE == Head(ves.queue)
VK0 == [queue |-> Tail(ves.queue), res |-> ves.res, pool |-> ves.pool]
VesRunning == ves.phase = "running" /\ ves.queue # <<>>
VesAt(p, kind, label) == VesRunning /\ VE.p = p /\ VE.kind = kind /\ ves.pc[p] = label
VesselOf(p) == p[2]

\* ves after a step of process p that leaves the shared state K.
VesStep(K, t, pcs) ==
    [ves EXCEPT !.now = t, !.queue = K.queue, !.res = K.res, !.pool = K.pool, !.pc = pcs]

\* build_quayside_resources and the start of vessel_arrival_generator.
VesCalled(p) ==
    [phase |-> "running", p |-> p, now |-> 0,
     queue |-> << Ev(0, 0, "init", VesGen, "", NoItem) >>,
     res |-> [r \in {"berth_pier1", "berth_pier2"} |->
                 [capacity |-> IF r = "berth_pier1" THEN p.PIER1_BERTHS ELSE p.PIER2_BERTHS,
                  users |-> {}, queue |-> << >>]],
     pool |-> [pier \in Piers |->
                 [capacity |-> IF pier = "Pier 1" THEN p.PIER1_CRANE_POOL
                               ELSE p.PIER2_CRANE_POOL,
                  level |-> IF pier = "Pier 1" THEN p.PIER1_CRANE_POOL
                            ELSE p.PIER2_CRANE_POOL,
                  getq |-> << >>, putq |-> << >>]],
     pc |-> [q \in VesProcs |-> IF q = VesGen THEN "new" ELSE "none"],
     v |-> [i \in VesselIds |-> NoVessel],
     vessel_id |-> 0,
     metrics |-> << >>]

\* The generator draws an interarrival time and waits.
vessel_arrival_generator_start ==
    /\ VesAt(VesGen, "init", "new")
    /\ \E d \in ves.p.interarrivals :
          ves' = VesStep(Timeout(VK0, VesGen, VE.t, d), VE.t,
                         [ves.pc EXCEPT ![VesGen] = "wait"])
    /\ UNCHANGED <<simVars, ov, tas, ag, rt>>

\* The generator wakes: it stops at stop_time, else it starts a vessel call
\* and waits again.
vessel_arrival_generator_wake ==
    /\ VesAt(VesGen, "timeout", "wait")
    /\ IF VE.t >= ves.p.stop_time \/ ves.vessel_id >= MaxVessels
       THEN ves' = VesStep(VK0, VE.t, [ves.pc EXCEPT ![VesGen] = "done"])
       ELSE \E d \in ves.p.interarrivals :
               LET vp == <<"V", ves.vessel_id>>
               IN  ves' = [VesStep(Timeout(StartProcess(VK0, vp, VE.t), VesGen, VE.t, d), VE.t,
                                   [ves.pc EXCEPT ![vp] = "new"])
                             EXCEPT !.vessel_id = @ + 1]
    /\ UNCHANGED <<simVars, ov, tas, ag, rt>>

\* vessel_call_process up to the berth request, or without the anchorage
\* queue up to the crane allocation.
vessel_call_process_start(vp) ==
    /\ VesAt(vp, "init", "new")
    /\ LET i == VesselOf(vp)
           pier == select_pier(ves.res)
       IN  \E sampled \in sample_gang(ves.p, pier) :
              LET loc0 == [NoVessel EXCEPT
                              !.vessel_arrival_time = VE.t, !.pier = pier,
                              !.containers_generated = ContainersGenerated(ves.p),
                              !.sampled = sampled,
                              !.cranes_requested = Max(sampled, ves.p.MIN_CRANES_PER_VESSEL)]
              IN  IF ves.p.enable_anchorage_queue
                  THEN ves' = [VesStep(Request(VK0, BerthOf(pier), vp, VE.t), VE.t,
                                       [ves.pc EXCEPT ![vp] = "berth"])
                                 EXCEPT !.v[i] = loc0]
                  ELSE ves' = [VesStep(StartProcess(VK0, <<"A", i>>, VE.t), VE.t,
                                       [ves.pc EXCEPT ![vp] = "allocating", ![<<"A", i>>] = "new"])
                                 EXCEPT !.v[i] = [loc0 EXCEPT !.berth_start_time = VE.t]]
    /\ UNCHANGED <<simVars, ov, tas, ag, rt>>

\* The berth is granted: the vessel starts the crane allocation.
vessel_call_process_berthed(vp) ==
    /\ VesAt(vp, "req", "berth")
    /\ LET i == VesselOf(vp)
       IN  ves' = [VesStep(StartProcess(VK0, <<"A", i>>, VE.t), VE.t,
                           [ves.pc EXCEPT ![vp] = "allocating", ![<<"A", i>>] = "new"])
                     EXCEPT !.v[i].berth_start_time = VE.t]
    /\ UNCHANGED <<simVars, ov, tas, ag, rt>>

\* _allocate_cranes up to its get.
_allocate_cranes_start(ap) ==
    /\ VesAt(ap, "init", "new")
    /\ LET i == VesselOf(ap)
           pier == ves.v[i].pier
           level == ves.pool[pier].level
           min_cranes == ves.p.MIN_CRANES_PER_VESSEL
           cranes_assigned == IF level < min_cranes THEN min_cranes
                              ELSE Max(Min(ves.v[i].cranes_requested, level), min_cranes)
       IN  ves' = [VesStep(PoolGet(VK0, pier, ap, cranes_assigned, VE.t), VE.t,
                           [ves.pc EXCEPT ![ap] = "get"])
                     EXCEPT !.v[i].wait_start = VE.t, !.v[i].available = level,
                            !.v[i].cranes_assigned = cranes_assigned]
    /\ UNCHANGED <<simVars, ov, tas, ag, rt>>

\* The get of _allocate_cranes is through: blocked puts are looked at, the
\* wait is taken and the process returns.
_allocate_cranes_granted(ap) ==
    /\ VesAt(ap, "pget", "get")
    /\ LET i == VesselOf(ap)
       IN  ves' = [VesStep(ProcessEnds(TriggerPutPool(VK0, VE.r, VE.t), <<"V", i>>, VE.t), VE.t,
                           [ves.pc EXCEPT ![ap] = "done"])
                     EXCEPT !.v[i].crane_wait = Max(0, VE.t - ves.v[i].wait_start)]
    /\ UNCHANGED <<simVars, ov, tas, ag, rt>>

\* The vessel has its gang: the rates and the service minutes are set and
\* the first release interval starts.
vessel_call_process_discharge(vp) ==
    /\ VesAt(vp, "ended", "allocating")
    /\ LET i == VesselOf(vp)
           inter == InterReleaseMinutes(ves.p, ves.v[i].cranes_assigned)
       IN  \E service \in ServiceMinutes(ves.p, ves.v[i].cranes_assigned) :
              ves' = [VesStep(Timeout(VK0, vp, VE.t, inter), VE.t,
                              [ves.pc EXCEPT ![vp] = "release_loop"])
                        EXCEPT !.v[i].inter_release_minutes = inter,
                               !.v[i].service_minutes = Max(0, service)]
    /\ UNCHANGED <<simVars, ov, tas, ag, rt>>

\* One release interval is over: a container is spawned; after the last one
\* the vessel waits the remaining service time or returns its cranes.
vessel_call_process_spawn(vp) ==
    /\ VesAt(vp, "timeout", "release_loop")
    /\ LET i == VesselOf(vp)
           loc1 == ves.v[i]
           spawned == Append(loc1.spawned, [idx |-> Len(loc1.spawned), at |-> VE.t])
           remaining == Remaining(loc1.service_minutes,
                                  loc1.containers_generated * loc1.inter_release_minutes)
       IN  ves' = [(IF Len(spawned) < loc1.containers_generated
                    THEN VesStep(Timeout(VK0, vp, VE.t, loc1.inter_release_minutes), VE.t, ves.pc)
                    ELSE IF remaining # 0
                    THEN VesStep(Timeout(VK0, vp, VE.t, remaining), VE.t,
                                 [ves.pc EXCEPT ![vp] = "remaining"])
                    ELSE VesStep(StartProcess(VK0, <<"R", i>>, VE.t), VE.t,
                                 [ves.pc EXCEPT ![vp] = "releasing", ![<<"R", i>>] = "new"]))
                     EXCEPT !.v[i].spawned = spawned]
    /\ UNCHANGED <<simVars, ov, tas, ag, rt>>

\* The remaining service time is over: the cranes are returned.
vessel_call_process_served(vp) ==
    /\ VesAt(vp, "timeout", "remaining")
    /\ LET i == VesselOf(vp)
       IN  ves' = VesStep(StartProcess(VK0, <<"R", i>>, VE.t), VE.t,
                          [ves.pc EXCEPT ![vp] = "releasing", ![<<"R", i>>] = "new"])
    /\ UNCHANGED <<simVars, ov, tas, ag, rt>>

\* _release_cranes up to its put.
_release_cranes_start(rp) ==
    /\ VesAt(rp, "init", "new")
    /\ LET i == VesselOf(rp)
       IN  ves' = VesStep(PoolPut(VK0, ves.v[i].pier, rp, ves.v[i].cranes_assigned, VE.t), VE.t,
                          [ves.pc EXCEPT ![rp] = "put"])
    /\ UNCHANGED <<simVars, ov, tas, ag, rt>>

\* The put of _release_cranes is through: waiting gets are looked at and the
\* process returns.
_release_cranes_done(rp) ==
    /\ VesAt(rp, "pput", "put")
    /\ LET i == VesselOf(rp)
       IN  ves' = [VesStep(ProcessEnds(TriggerGetPool(VK0, VE.r, VE.t), <<"V", i>>, VE.t), VE.t,
                           [ves.pc EXCEPT ![rp] = "done"])
                     EXCEPT !.v[i].returned = TRUE]
    /\ UNCHANGED <<simVars, ov, tas, ag, rt>>

\* The cranes are back: the berth is released and the metrics are recorded.
vessel_call_process_done(vp) ==
    /\ VesAt(vp, "ended", "releasing")
    /\ LET i == VesselOf(vp)
           K == IF ves.p.enable_anchorage_queue
                THEN Release(VK0, BerthOf(ves.v[i].pier), vp, VE.t) ELSE VK0
           t == [ves.v[i] EXCEPT !.berth_end_time = VE.t]
       IN  ves' = [VesStep(K, VE.t, [ves.pc EXCEPT ![vp] = "done"])
                     EXCEPT !.v[i] = t,
                            !.metrics = Append(@, [vessel_id |-> i, t |-> t])]
    /\ UNCHANGED <<simVars, ov, tas, ag, rt>>

\* A berth's release event is processed: its waiting requests are looked at.
berth_release_processed ==
    /\ VesRunning /\ VE.kind = "release"
    /\ ves' = VesStep(TriggerPutRes(VK0, VE.r, VE.t), VE.t, ves.pc)
    /\ UNCHANGED <<simVars, ov, tas, ag, rt>>

InitVessels ==
    /\ SimIdle
    /\ cfg = DemoBase
    /\ ov = OvIdle /\ tas = TasIdle /\ ag = AgIdle /\ rt = RtIdle
    /\ \E p \in VesselParamSets : ves = VesCalled(p)

NextVessels ==
    \/ vessel_arrival_generator_start
    \/ vessel_arrival_generator_wake
    \/ \E vp \in VesselProcs :
          \/ vessel_call_process_start(vp)
          \/ vessel_call_process_berthed(vp)
          \/ vessel_call_process_discharge(vp)
          \/ vessel_call_process_spawn(vp)
          \/ vessel_call_process_served(vp)
          \/ vessel_call_process_done(vp)
    \/ \E ap \in AllocProcs : _allocate_cranes_start(ap) \/ _allocate_cranes_granted(ap)
    \/ \E rp \in ReleaseProcs : _release_cranes_start(rp) \/ _release_cranes_done(rp)
    \/ berth_release_processed

SpecVessels == InitVessels /\ [][NextVessels]_vars


\* The get of vessel i's crane allocation has been served.
GrantedCranes(i) ==
    /\ ves.v[i].cranes_assigned # None
    /\ \A k \in 1 .. Len(ves.pool[ves.v[i].pier].getq) :
          ves.pool[ves.v[i].pier].getq[k].p # <<"A", i>>

\* Vessel i waits for the get of its crane allocation.
BlockedOnCranes(i) == ves.v[i].cranes_assigned # None /\ ~GrantedCranes(i)

RECURSIVE SumAssigned(_, _)
SumAssigned(v, S) ==
    IF S = {} THEN 0
    ELSE LET i == CHOOSE x \in S : TRUE IN v[i].cranes_assigned + SumAssigned(v, S \ {i})

\* The gang of every vessel that has one is at least the minimum, at most
\* max(sampled, minimum), and the minimum when the pool held less than that.
GangWithinLimits ==
    \A i \in VesselIds :
        GrantedCranes(i) =>
            /\ ves.v[i].cranes_assigned >= ves.p.MIN_CRANES_PER_VESSEL
            /\ ves.v[i].cranes_assigned <= Max(ves.v[i].sampled, ves.p.MIN_CRANES_PER_VESSEL)
            /\ ves.v[i].available < ves.p.MIN_CRANES_PER_VESSEL =>
                  ves.v[i].cranes_assigned = ves.p.MIN_CRANES_PER_VESSEL

\* The gangs granted in a step are together no more than the pool held, and
\* a vessel that finds less than the minimum in the pool is not granted a
\* gang in that step.
GrantedFromPool ==
    /\ \A pier \in Piers :
          LET newly == {i \in VesselIds : /\ ves.v[i].pier = pier
                                          /\ ~GrantedCranes(i) /\ GrantedCranes(i)'}
          IN  /\ SumAssigned(ves'.v, newly) <= ves.pool[pier].level
              /\ ves'.pool[pier].level >= 0
    /\ \A i \in VesselIds :
          (/\ ves.v[i].available = None /\ ves'.v[i].available # None
           /\ ves'.v[i].available < ves.p.MIN_CRANES_PER_VESSEL) => BlockedOnCranes(i)'

\* C19: every vessel's gang is at least MIN_CRANES_PER_VESSEL, also when
\* the sampled gang is smaller, at most max(requested, minimum), and never
\* more than the pool held when it was granted; a vessel that finds fewer
\* than the minimum in the pool blocks and is then assigned exactly the
\* minimum.
C19_GangAtLeastMinimumFromPool ==
    /\ [](ves.phase = "running" => GangWithinLimits)
    /\ [][ves.phase = "running" => GrantedFromPool]_vars

\* A vessel that sampled a gang below the minimum and found less than the
\* minimum in the pool has waited and holds exactly the minimum.
C19_Witness ==
    /\ ves.phase = "running"
    /\ \E i \in VesselIds :
          /\ GrantedCranes(i)
          /\ ves.v[i].sampled < ves.p.MIN_CRANES_PER_VESSEL
          /\ ves.v[i].available < ves.p.MIN_CRANES_PER_VESSEL
          /\ ves.v[i].crane_wait # None /\ ves.v[i].crane_wait > 0
          /\ ves.v[i].cranes_assigned = ves.p.MIN_CRANES_PER_VESSEL

\* The time vessel i was granted its cranes.
CraneGrantTime(i) == ves.v[i].wait_start + ves.v[i].crane_wait

\* The containers of vessel i spawned so far have the indices 0, 1, ... and
\* were spawned one release interval after the other from the crane grant on.
SpawnedInOrder(i) ==
    /\ Len(ves.v[i].spawned) <= ves.v[i].containers_generated
    /\ \A j \in 1 .. Len(ves.v[i].spawned) :
          /\ ves.v[i].spawned[j].idx = j - 1
          /\ ves.v[i].spawned[j].at = CraneGrantTime(i) + j * ves.v[i].inter_release_minutes

\* A vessel that has left spawned all its containers, stayed
\* max(service_minutes, N x inter_release_minutes) from the crane grant on
\* and had returned its cranes.
CallComplete(i) ==
    LET N == ves.v[i].containers_generated
    IN  /\ Len(ves.v[i].spawned) = N
        /\ N = Max(1, IF ves.p.import_share = None THEN ves.p.moves_per_call
                      ELSE RoundHalfEven(ves.p.moves_per_call * ves.p.import_share, 100))
        /\ ves.v[i].berth_end_time - CraneGrantTime(i) =
               Max(ves.v[i].service_minutes, N * ves.v[i].inter_release_minutes)
        /\ ves.v[i].returned

\* The vessel keeps its berth while its cranes go back to the pool.
BerthHeldUntilReturned(i) ==
    (ves.p.enable_anchorage_queue /\ ves.pc[<<"R", i>>] \in {"new", "put"}) =>
        <<"V", i>> \in ves.res[BerthOf(ves.v[i].pier)].users

\* A container is spawned by a vessel that holds its cranes, and the berth
\* is left by a vessel whose cranes are back.
SpawnsWhileHoldingCranes(i) ==
    /\ Len(ves'.v[i].spawned) # Len(ves.v[i].spawned) =>
          /\ Len(ves'.v[i].spawned) = Len(ves.v[i].spawned) + 1
          /\ GrantedCranes(i) /\ ves.v[i].crane_wait # None
          /\ ves.pc[<<"R", i>>] = "none" /\ ~ves.v[i].returned
    /\ (ves.v[i].berth_end_time = None /\ ves'.v[i].berth_end_time # None) =>
          ves.v[i].returned

\* C32: a vessel call spawns containers_generated containers, indices
\* 0..N-1 in order, one per inter_release_minutes and all while it holds its
\* cranes; it then waits max(0, service_minutes - N x inter_release_minutes),
\* so that berth_end_time is max(service_minutes, N x inter_release_minutes)
\* after the crane grant, and its cranes are back before the berth is released.
C32_ContainersSpawnedDuringDischarge ==
    /\ [](ves.phase = "running" =>
            \A i \in VesselIds :
                /\ ves.v[i].crane_wait # None => SpawnedInOrder(i)
                /\ ves.v[i].crane_wait = None => ves.v[i].spawned = << >>
                /\ ves.v[i].berth_end_time # None => CallComplete(i)
                /\ BerthHeldUntilReturned(i))
    /\ [][ves.phase = "running" => \A i \in VesselIds : SpawnsWhileHoldingCranes(i)]_vars

\* A vessel that waited for its cranes has spawned its one container, half
\* of its two moves, waited the rest of its service time and left.
C32_Witness ==
    /\ ves.phase = "running"
    /\ \E i \in VesselIds :
          /\ ves.v[i].berth_end_time # None
          /\ ves.v[i].crane_wait > 0
          /\ Len(ves.v[i].spawned) = 1 /\ ves.p.moves_per_call = 2
          /\ ves.v[i].service_minutes > ves.v[i].inter_release_minutes

\* env.run() goes on while the event queue holds an event.
SpecVesselsLive == SpecVessels /\ WF_vars(NextVessels)

HoldsBerth(i) ==
    /\ ves.phase = "running" /\ ves.p.enable_anchorage_queue
    /\ ves.v[i].berth_start_time # None /\ ves.v[i].berth_end_time = None

HoldsCranes(i) == GrantedCranes(i) /\ ~ves.v[i].returned

VesselEmitted(i) == \E k \in 1 .. Len(ves.metrics) : ves.metrics[k].vessel_id = i

\* Vessel i has returned its cranes, left its berth and emitted its metrics.
CallOver(i) ==
    /\ ves.v[i].returned /\ ves.v[i].berth_end_time # None
    /\ <<"V", i>> \notin ves.res[BerthOf(ves.v[i].pier)].users
    /\ VesselEmitted(i)

\* A vessel that holds cranes waits for no berth and for no crane, and a
\* return of cranes never waits.
CraneHoldersDoNotWait ==
    /\ \A i \in VesselIds :
          HoldsCranes(i) =>
              /\ \A r \in DOMAIN ves.res : \A k \in 1 .. Len(ves.res[r].queue) :
                    ves.res[r].queue[k] # <<"V", i>>
              /\ \A pier \in Piers : \A k \in 1 .. Len(ves.pool[pier].getq) :
                    ves.pool[pier].getq[k].p # <<"A", i>>
    /\ \A pier \in Piers : ves.pool[pier].putq = << >>

\* C33: with the anchorage queue enabled, a vessel that is granted a berth
\* is eventually granted a crane gang and eventually returns its cranes,
\* releases the berth and emits its metrics; a vessel that holds cranes
\* waits for no other resource.
C33_BerthedVesselCompletes ==
    /\ \A i \in VesselIds : HoldsBerth(i) ~> (ves.v[i].crane_wait # None /\ GrantedCranes(i))
    /\ \A i \in VesselIds : HoldsBerth(i) ~> CallOver(i)
    /\ [](ves.phase = "running" => CraneHoldersDoNotWait)

\* A vessel that waited at its berth for cranes has left, and its metrics
\* are recorded.
C33_Witness ==
    /\ ves.phase = "running" /\ ves.p.enable_anchorage_queue
    /\ \E i \in VesselIds :
          /\ CallOver(i)
          /\ ves.v[i].crane_wait > 0
          /\ ves.v[i].berth_start_time = ves.v[i].wait_start

\* The put of vessel i's crane return has been served.
ReturnedCranes(i) ==
    /\ ves.pc[<<"R", i>>] \in {"put", "done"}
    /\ \A k \in 1 .. Len(ves.pool[ves.v[i].pier].putq) :
          ves.pool[ves.v[i].pier].putq[k].p # <<"R", i>>

\* The vessels at a pier that were granted a gang and have not returned it.
CraneHolders(pier) ==
    {i \in VesselIds : ves.v[i].pier = pier /\ GrantedCranes(i) /\ ~ReturnedCranes(i)}

\* C38: at each pier the level of the crane pool plus the gangs of the
\* vessels that were granted one and have not returned it is the capacity
\* of the pool; the level is never above the capacity and no return waits.
C38_CranePoolConserved ==
    ves.phase = "running" =>
        \A pier \in Piers :
            /\ ves.pool[pier].level + SumAssigned(ves.v, CraneHolders(pier))
                  = ves.pool[pier].capacity
            /\ ves.pool[pier].level >= 0
            /\ ves.pool[pier].level <= ves.pool[pier].capacity
            /\ ves.pool[pier].putq = << >>

\* One vessel has returned its gang to a pool that another vessel at the
\* pier holds cranes of and a third waits for.
C38_Witness ==
    /\ ves.phase = "running"
    /\ \E pier \in Piers :
          /\ CraneHolders(pier) # {}
          /\ ves.pool[pier].level < ves.pool[pier].capacity
          /\ ves.pool[pier].getq # << >>
          /\ \E i \in VesselIds : ves.v[i].pier = pier /\ ReturnedCranes(i)

\* Vessel i has started its call.
CallStarted(i) == ves.v[i].vessel_arrival_time # None

\* C40: without the anchorage queue no vessel requests a berth: both berth
\* resources keep no user and an empty queue, and select_pier returns
\* Pier 1 for every vessel.
C40_NoBerthUseWithoutAnchorage ==
    (ves.phase = "running" /\ ~ves.p.enable_anchorage_queue) =>
        /\ \A r \in {"berth_pier1", "berth_pier2"} :
              /\ ves.res[r].users = {} /\ ves.res[r].queue = << >>
              /\ \A k \in 1 .. Len(ves.queue) : ves.queue[k].r # r
        /\ \A i \in VesselIds : CallStarted(i) => ves.v[i].pier = "Pier 1"

\* Without the anchorage queue three calls are at Pier 1 together, more
\* than it has berths: one is over, one holds cranes and one waits for them.
C40_Witness ==
    /\ ves.phase = "running" /\ ~ves.p.enable_anchorage_queue
    /\ Cardinality({i \in VesselIds : CallStarted(i) /\ ves.v[i].pier = "Pier 1"})
          > ves.res["berth_pier1"].capacity
    /\ \E i \in VesselIds : CallOver(i)
    /\ \E i \in VesselIds : BlockedOnCranes(i)

\* The score of a berth resource times k: len(queue) + count / capacity.
ScoreTimes(berth, k) ==
    (Len(berth.queue) * berth.capacity + Cardinality(berth.users)) * (k \div berth.capacity)

\* C20: the pier a vessel call selects is the one whose score, the berth
\* queue length plus berths in use over berth capacity, is lowest, and
\* Pier 1 when the two scores are equal.
C20_SelectPierLowestScore ==
    [][ves.phase = "running" =>
          \A i \in VesselIds :
              (ves.v[i].pier = "" /\ ves'.v[i].pier # "") =>
                  LET k == ves.res["berth_pier1"].capacity * ves.res["berth_pier2"].capacity
                      score1 == ScoreTimes(ves.res["berth_pier1"], k)
                      score2 == ScoreTimes(ves.res["berth_pier2"], k)
                  IN  /\ score1 < score2 => ves'.v[i].pier = "Pier 1"
                      /\ score2 < score1 => ves'.v[i].pier = "Pier 2"
                      /\ score1 = score2 => ves'.v[i].pier = "Pier 1"]_vars

\* A vessel has just chosen Pier 1 and queues there while each pier's only
\* berth is taken by an earlier vessel, the second of which chose Pier 2.
C20_Witness ==
    /\ ves.phase = "running"
    /\ ves.p.PIER1_BERTHS = 1 /\ ves.p.PIER2_BERTHS = 1
    /\ ves.v[2].pier = "Pier 1" /\ ves.v[2].vessel_arrival_time = ves.now
    /\ ves.res["berth_pier1"].queue = << <<"V", 2>> >>
    /\ ves.v[1].pier = "Pier 2"
    /\ \A j \in {0, 1} :
          /\ ves.v[j].berth_start_time # None
          /\ ves.v[j].berth_start_time < ves.now
          /\ ves.v[j].berth_end_time = None
          /\ ~ves.v[j].returned


====
